---- MODULE Spec2Model ----
(***************************************************************************)
(* Model of scripts/cgm.py: the Nightscout CGM client.                     *)
(*                                                                         *)
(* State: the remote entry list, the local SQLite store (table readings),  *)
(* the process-wide settings cache, the clock, and the position of the     *)
(* single-threaded program inside the command it is running.  A command is *)
(* split only where it waits for the remote: one step per page request of  *)
(* fetch_and_store, one step for the body of the command.                  *)
(*                                                                         *)
(* Time is in milliseconds; glucose values are in mg/dL.  Displayed        *)
(* one-decimal numbers are carried as integer tenths.                      *)
(***************************************************************************)
EXTENDS Integers, Sequences, FiniteSets, Bags, TLC

\* ---------------------------------------------------------------- bounds
\* number of distinct entries the remote may come to hold
NumEntries == 4
\* page size of one entries request (count=10000 in the source, scaled)
PageSize == 2
\* milliseconds per day (86400000 in the source, scaled)
MsPerDay == 2
\* largest lookback, in days, a command is started with
MaxDays == 2
\* the clock stops here
MaxNow == 7
\* the request counter saturates here
MaxReqs == 4
\* the status request counter saturates here
MaxStatusReqs == 2

Days == 1..MaxDays

VARIABLES
    remote,       \* indices of the entries the remote holds
    store,        \* bag of rows of table readings
    dbExists,     \* DB_PATH.exists()
    hasTable,     \* the file holds table readings
    last,         \* what the analyze before this one put out, and from what
    now,          \* datetime.now(), ms
    cached,       \* _cached_settings
    pc,           \* "idle" | "fetch" | "body" | "done"
    cmd,          \* the command being run
    days,         \* its lookback
    cutoff_ms,    \* fetch_and_store: cutoff_ms
    oldest_date,  \* fetch_and_store: oldest_date, <<>> is None
    total_new,    \* fetch_and_store: total_new
    result,       \* what the last command returned
    reqs,         \* entries requests issued by the running command
    statusReqs,   \* status requests issued by this process
    hist          \* history of the running command, for the properties

vars == <<remote, store, dbExists, hasTable, last, now, cached, pc, cmd, days, cutoff_ms,
          oldest_date, total_new, result, reqs, statusReqs, hist>>

\* ------------------------------------------------------------ the remote
\* ds: the dateString: text datetime.fromisoformat accepts, d/h being the
\* calendar day and the hour it then denotes
\* ("iso"), or is text it rejects ("bad"), or is missing ("null")
IsoDs(d, h) == [k |-> "iso", d |-> d, h |-> h]
BadDs == [k |-> "bad", d |-> 0, h |-> 0]
NullDs == [k |-> "null", d |-> 0, h |-> 0]

MkEntry(id, type, sgv, date, ds) ==
    [id |-> id, type |-> type, sgv |-> sgv, date |-> date, ds |-> ds]

\* The entries the remote can hold.  Entry 2 is not an observation; entry 3
\* reuses the _id of entry 1 with other content (the invalid value 0 and
\* text that is no date) and shares its timestamp with entry 2.  Entries 4
\* and 5 are two observations of one timestamp; entry 6 is one millisecond
\* after the epoch.
Entry(i) ==
    CASE i = 1 -> MkEntry(1, "sgv", 120, 6, IsoDs(3, 1))
      [] i = 2 -> MkEntry(2, "mbg", 90, 5, IsoDs(2, 1))
      [] i = 3 -> MkEntry(1, "sgv", 0, 5, BadDs)
      [] i = 4 -> MkEntry(3, "sgv", 60, 3, IsoDs(1, 2))
      [] i = 5 -> MkEntry(4, "sgv", 200, 3, IsoDs(1, 1))
      [] i = 6 -> MkEntry(5, "sgv", 110, 1, IsoDs(0, 1))
      [] OTHER -> MkEntry(i, "sgv", 100 + i, 2, IsoDs(1, 0))

EntryIds == 1..NumEntries

\* the most recent entry of S (the remote orders by recency)
Newest(S) ==
    CHOOSE i \in S : \A j \in S :
        \/ Entry(j).date < Entry(i).date
        \/ Entry(j).date = Entry(i).date /\ j >= i

RECURSIVE TakeNewest(_, _)
TakeNewest(S, n) ==
    IF n = 0 \/ S = {} THEN <<>>
    ELSE LET i == Newest(S) IN <<Entry(i)>> \o TakeNewest(S \ {i}, n - 1)

\* `if oldest_date:` - None and 0 are both falsy
HasCursor(od) == od # <<>> /\ od[1] # 0

\* GET entries.json?count=N[&find[date][$lte]=cursor]
Page(rem, od) ==
    TakeNewest({i \in rem : HasCursor(od) => Entry(i).date <= od[1]}, PageSize)

\* ------------------------------------------------------------- the store
Row(e) == [id |-> e.id, sgv |-> e.sgv, date_ms |-> e.date, ds |-> e.ds]

\* SELECT COUNT(*) FROM readings
Count(st) == BagCardinality(st)

\* SELECT 1 FROM readings WHERE id = ?
HasId(st, id) == \E r \in BagToSet(st) : r.id = id

InsertAlways(st, e) ==
    IF e.type = "sgv" THEN st (+) SetToBag({Row(e)}) ELSE st

InsertOrReplace(st, e) ==
    IF e.type = "sgv"
    THEN SetToBag({r \in BagToSet(st) : r.id # e.id} \cup {Row(e)})
    ELSE st

\* the body of `for e in entries`: insert an observation whose id is absent
Upsert(st, e) ==
    IF e.type = "sgv" /\ ~HasId(st, e.id)
    THEN st (+) SetToBag({Row(e)})
    ELSE st

\* the loop over one page: the store and total_new after it
RECURSIVE StorePage(_, _, _)
StorePage(st, new, page) ==
    IF page = <<>> THEN [st |-> st, new |-> new]
    ELSE LET st2 == Upsert(st, Head(page)) IN
         StorePage(st2,
                   IF Head(page).type = "sgv" /\ ~HasId(st, Head(page).id)
                   THEN new + 1 ELSE new,
                   Tail(page))

\* min(e.get("date") for e in entries), entries not empty
RECURSIVE MinDate(_)
MinDate(page) ==
    IF Len(page) = 1 THEN page[1].date
    ELSE LET m == MinDate(Tail(page)) IN
         IF page[1].date < m THEN page[1].date ELSE m

CutoffMs(t, d) == t - d * MsPerDay

\* ---------------------------------------------------------- the settings
\* a JSON member: missing, null, or a number
AbsentV == [k |-> "absent", v |-> 0]
NullV == [k |-> "null", v |-> 0]
Num(n) == [k |-> "num", v |-> n]

\* the thresholds member of settings: missing, null, or an object
Thr(k, lo, bottom, top, hi) ==
    [k |-> k, bgLow |-> lo, bgTargetBottom |-> bottom,
     bgTargetTop |-> top, bgHigh |-> hi]
AbsentThr == Thr("absent", AbsentV, AbsentV, AbsentV, AbsentV)
NullThr == Thr("null", AbsentV, AbsentV, AbsentV, AbsentV)

\* a value of _cached_settings: None, or a dict with its units member
\* ("absent", "null" or the string) and its thresholds member
Settings(k, units, thr) == [k |-> k, units |-> units, thresholds |-> thr]
NoneSettings == Settings("None", "absent", AbsentThr)
EmptySettings == Settings("dict", "absent", AbsentThr)

\* what GET status.json can come to: an exception of any kind (network,
\* HTTP status, body that is not JSON or not an object), or a JSON object
\* whose settings member is missing, null, or an object
StatusOutcomes ==
    { [k |-> "error", settings |-> NoneSettings],
      [k |-> "body", settings |-> Settings("absent", "absent", AbsentThr)],
      [k |-> "body", settings |-> NoneSettings],
      [k |-> "body", settings |->
          Settings("dict", "MMOL/L", Thr("dict", Num(60), Num(80), Num(160), Num(240)))],
      [k |-> "body", settings |-> Settings("dict", "null", AbsentThr)],
      [k |-> "body", settings |-> Settings("dict", "mg/dl", NullThr)],
      [k |-> "body", settings |->
          Settings("dict", "absent", Thr("dict", NullV, AbsentV, Num(170), AbsentV))] }

\* resp.json().get("settings", {}), {} on any exception
Fetched(out) ==
    IF out.k = "error" THEN EmptySettings
    ELSE IF out.settings.k = "absent" THEN EmptySettings
    ELSE out.settings

RefetchAlways(c) == FALSE

\* `if _cached_settings is not None`
IsCached(c) == c.k # "None"

\* get_nightscout_settings: the cache after the call, the value returned and
\* the number of status requests made
GetSettings(c, out) ==
    IF IsCached(c) THEN [cache |-> c, ret |-> c, req |-> 0]
    ELSE [cache |-> Fetched(out), ret |-> Fetched(out), req |-> 1]

\* units.lower().startswith("mmol")
LowerStartsWithMmol(u) == u \in {"mmol", "mmol/l", "mmol/L", "MMOL/L"}

Raise == [kind |-> "raise"]

\* use_mmol on the settings s: raises when s or units is None
UseMmol(s) ==
    IF s.k = "None" \/ s.units = "null" THEN Raise
    ELSE [kind |-> "value",
          mmol |-> IF s.units = "absent" THEN FALSE
                   ELSE LowerStartsWithMmol(s.units)]

\* get_unit_label
GetUnitLabel(s) ==
    IF UseMmol(s).kind = "raise" THEN Raise
    ELSE [kind |-> "value", unit |-> IF UseMmol(s).mmol THEN "mmol/L" ELSE "mg/dL"]

DefaultUrgentLow == 55
DefaultTargetLow == 70
DefaultTargetHigh == 180
DefaultUrgentHigh == 250

\* thresholds.get(key, default): the default only when the key is missing
GetOr(m, default) == IF m.k = "absent" THEN Num(default) ELSE m

\* get_thresholds on the settings s: raises when s or thresholds is None
GetThresholds(s) ==
    IF s.k = "None" \/ s.thresholds.k = "null" THEN Raise
    ELSE [kind |-> "value",
          urgent_low |-> GetOr(s.thresholds.bgLow, DefaultUrgentLow),
          target_low |-> GetOr(s.thresholds.bgTargetBottom, DefaultTargetLow),
          target_high |-> GetOr(s.thresholds.bgTargetTop, DefaultTargetHigh),
          urgent_high |-> GetOr(s.thresholds.bgHigh, DefaultUrgentHigh)]

\* a comparison of a reading with a threshold raises TypeError on None
Comparable(t) ==
    /\ t.kind = "value"
    /\ t.urgent_low.k = "num" /\ t.target_low.k = "num"
    /\ t.target_high.k = "num" /\ t.urgent_high.k = "num"

\* ------------------------------------------------------- the aggregation
\* round(num / den) to the nearest integer, ties to even (Python's round)
RoundHalfEven(num, den) ==
    LET q == num \div den
        r == num % den
    IN IF 2 * r < den THEN q
       ELSE IF 2 * r > den THEN q + 1
       ELSE IF q % 2 = 0 THEN q ELSE q + 1

\* convert_glucose of a value given in tenths of mg/dL, as display tenths:
\* round(value / 18.0182, 1) under mmol, the value itself otherwise
ConvertGlucose(vt, mmol) ==
    IF mmol THEN RoundHalfEven(vt * 10000, 180182) ELSE vt

AnyValue(r, cutoff) == r.date_ms >= cutoff

AnyTime(r, cutoff) == r.sgv > 0

\* WHERE date_ms >= ? AND sgv > 0
InWindow(r, cutoff) == r.date_ms >= cutoff /\ r.sgv > 0

\* the rows a query selects, with their multiplicities
Selected(st, cutoff) ==
    LET S == {r \in BagToSet(st) : InWindow(r, cutoff)}
    IN [r \in S |-> CopiesIn(r, st)]

\* ORDER BY date_ms (rows of equal date_ms in some fixed order)
RECURSIVE RowsByDate(_)
RowsByDate(b) ==
    IF BagToSet(b) = {} THEN <<>>
    ELSE LET r == CHOOSE x \in BagToSet(b) :
                    \A y \in BagToSet(b) : x.date_ms <= y.date_ms
         IN <<r>> \o RowsByDate(b (-) SetToBag({r}))

RECURSIVE SumSeq(_)
SumSeq(q) == IF q = <<>> THEN 0 ELSE Head(q) + SumSeq(Tail(q))

\* sorted(values)
RECURSIVE InsertSorted(_, _)
InsertSorted(v, q) ==
    IF q = <<>> THEN <<v>>
    ELSE IF v <= Head(q) THEN <<v>> \o q
    ELSE <<Head(q)>> \o InsertSorted(v, Tail(q))

RECURSIVE Sorted(_)
Sorted(q) == IF q = <<>> THEN <<>> ELSE InsertSorted(Head(q), Sorted(Tail(q)))

LowerMiddle(n) == (n + 1) \div 2

\* values[n // 2], counted from 1
MedianIndex(n) == (n \div 2) + 1

\* get_stats(values), values not empty; std, which no statement here
\* concerns, is not carried
GetStats(values, mmol) ==
    LET sv == Sorted(values)
        n == Len(values)
    IN [count |-> n,
        mean |-> ConvertGlucose(RoundHalfEven(10 * SumSeq(sv), n), mmol),
        min |-> ConvertGlucose(10 * sv[1], mmol),
        max |-> ConvertGlucose(10 * sv[n], mmol),
        median |-> ConvertGlucose(10 * sv[MedianIndex(n)], mmol),
        unit |-> IF mmol THEN "mmol/L" ELSE "mg/dL"]

CountIf(values, P(_)) == Cardinality({i \in 1..Len(values) : P(values[i])})

\* round(c / n * 100, 1), in tenths of a percent
Pct(c, n) == RoundHalfEven(1000 * c, n)

\* the five conditions of get_time_in_range, t the numeric thresholds
VeryLowBand(v, t) == v < t.urgent_low.v
LowBand(v, t) == t.urgent_low.v <= v /\ v < t.target_low.v
InRangeBelowHigh(v, t) == t.target_low.v <= v /\ v < t.target_high.v
InRangeBand(v, t) == t.target_low.v <= v /\ v <= t.target_high.v
HighBand(v, t) == t.target_high.v < v /\ v <= t.urgent_high.v
VeryHighBand(v, t) == v > t.urgent_high.v

\* get_time_in_range(values), values not empty, t the numeric thresholds
GetTimeInRange(values, t) ==
    LET n == Len(values)
    IN [very_low_pct |-> Pct(CountIf(values, LAMBDA v : VeryLowBand(v, t)), n),
        low_pct |-> Pct(CountIf(values, LAMBDA v : LowBand(v, t)), n),
        in_range_pct |-> Pct(CountIf(values, LAMBDA v : InRangeBand(v, t)), n),
        high_pct |-> Pct(CountIf(values, LAMBDA v : HighBand(v, t)), n),
        very_high_pct |-> Pct(CountIf(values, LAMBDA v : VeryHighBand(v, t)), n)]

\* the values of the rows whose text parses to hour h
RECURSIVE HourValues(_, _)
HourValues(rows, h) ==
    IF rows = <<>> THEN <<>>
    ELSE (IF Head(rows).ds.k = "iso" /\ Head(rows).ds.h = h
          THEN <<Head(rows).sgv>> ELSE <<>>) \o HourValues(Tail(rows), h)

\* hourly_avg: hour -> convert_glucose(round(sum / len, 0))
HourlyAverages(rows, mmol) ==
    LET H == {rows[i].ds.h : i \in {j \in 1..Len(rows) : rows[j].ds.k = "iso"}}
    IN [h \in H |->
          LET v == HourValues(rows, h)
          IN ConvertGlucose(10 * RoundHalfEven(SumSeq(v), Len(v)), mmol)]

\* rows[i][2][:10] if rows[i][2] else "unknown"
DatePart(ds) == [k |-> ds.k, d |-> ds.d]

\* round(3.31 + 0.02392 * raw_mean, 1), in tenths
Gmi(sum, n) == RoundHalfEven(331000 * n + 2392 * sum, 10000 * n)

\* a / b <= c / d for a, c >= 0 and b, d > 0, by continued fractions (the
\* cross products leave the range of the integers at hand)
RECURSIVE FracLeq(_, _, _, _)
FracLeq(a, b, c, d) ==
    IF a \div b # c \div d THEN a \div b < c \div d
    ELSE IF a % b = 0 THEN TRUE
    ELSE IF c % d = 0 THEN FALSE
    ELSE FracLeq(d, c % d, b, a % b)

\* p * p <= 4000000 * dd, that is p / 2 <= 1000 * sqrt(dd)
SqLeq(p, dd) == p = 0 \/ FracLeq(p, 4000000, dd, p)
SqGeq(p, dd) == p # 0 /\ FracLeq(dd, p, p, 4000000)

\* the greatest k in lo..hi with (2k - 1) * sum / 2 <= 1000 * sqrt(dd)
RECURSIVE CvSearch(_, _, _, _)
CvSearch(lo, hi, sum, dd) ==
    IF lo = hi THEN lo
    ELSE LET mid == (lo + hi + 1) \div 2
         IN IF SqLeq((2 * mid - 1) * sum, dd)
            THEN CvSearch(mid, hi, sum, dd)
            ELSE CvSearch(lo, mid - 1, sum, dd)

\* round((raw_std / raw_mean) * 100, 1) in tenths, values positive:
\* raw_std / raw_mean = sqrt(n * sum(x^2) - sum(x)^2) / sum(x)
Cv(values) ==
    LET n == Len(values)
        sum == SumSeq(values)
        dd == n * SumSeq([i \in 1..n |-> values[i] * values[i]]) - sum * sum
        k == CvSearch(0, 1000 * n, sum, dd)
    IN IF k > 0 /\ k % 2 = 1 /\ SqGeq((2 * k - 1) * sum, dd) THEN k - 1 ELSE k

\* cv < 36
StableBelow == 360

IndicatorsConverted(values, s) ==
    LET n == Len(values)
        mean == ConvertGlucose(RoundHalfEven(10 * SumSeq(values), n), UseMmol(s).mmol)
    IN [gmi |-> RoundHalfEven(3310000 + 2392 * mean, 100000),
        cv |-> Cv(values),
        cv_status |-> IF Cv(values) < StableBelow THEN "stable"
                      ELSE "high variability"]

\* gmi, cv and cv_status of analyze_cgm: from the raw values, whatever the
\* unit the settings s ask for
Indicators(values, s) ==
    [gmi |-> Gmi(SumSeq(values), Len(values)),
     cv |-> Cv(values),
     cv_status |-> IF Cv(values) < StableBelow THEN "stable"
                   ELSE "high variability"]

NoDataError == [kind |-> "error", error |-> "No data found for the specified period."]

\* analyze_cgm after ensure_data, on the store st at time t with the
\* settings s that get_nightscout_settings returns (s is not consulted
\* when the window is empty)
AnalyzeCgm(st, t, d, s) ==
    LET rows == RowsByDate(Selected(st, CutoffMs(t, d)))
        values == [i \in 1..Len(rows) |-> rows[i].sgv]
    IN IF rows = <<>> THEN NoDataError
       ELSE IF UseMmol(s).kind = "raise" THEN Raise
       ELSE IF ~Comparable(GetThresholds(s)) THEN Raise
       ELSE IF \E i \in 1..Len(rows) : rows[i].ds.k = "null" THEN Raise
       ELSE LET mmol == UseMmol(s).mmol IN
            [kind |-> "analysis",
             from |-> DatePart(rows[1].ds),
             to |-> DatePart(rows[Len(rows)].ds),
             days_analyzed |-> d,
             readings |-> Len(values),
             statistics |-> GetStats(values, mmol),
             time_in_range |-> GetTimeInRange(values, GetThresholds(s)),
             gmi_estimated_a1c |-> Indicators(values, s).gmi,
             cv_variability |-> Indicators(values, s).cv,
             cv_status |-> Indicators(values, s).cv_status,
             hourly_averages |-> HourlyAverages(rows, mmol),
             unit |-> GetUnitLabel(s).unit]

\* whether analyze_cgm reaches a settings accessor
AnalyzeReadsSettings(st, t, d) == BagToSet(Selected(st, CutoffMs(t, d))) # {}

\* ------------------------------------------------- the day and its hours
\* date(datetime(date_ms/1000, 'unixepoch', 'localtime')) and
\* strftime('%H', ...) of it, as day number and hour, the local zone being UTC
LocalDay(ms) == ms \div MsPerDay
LocalHour(ms) == (24 * (ms % MsPerDay)) \div MsPerDay

\* dt.weekday() of a text of day d
Weekday(d) == d % 7

\* the text Nightscout gives a reading taken at ms
DsOf(ms) == IsoDs(LocalDay(ms), LocalHour(ms))

NumViewRows == 7

\* rows of table readings: (id, sgv, date_ms, date_string)
MkRow(id, sgv, ms, ds) == [id |-> id, sgv |-> sgv, date_ms |-> ms, ds |-> ds]

ViewRow(i) ==
    CASE i = 1 -> MkRow(1, 0, 2 * MsPerDay, DsOf(2 * MsPerDay))
      [] i = 2 -> MkRow(2, 181, 2 * MsPerDay + 1, DsOf(2 * MsPerDay + 1))
      [] i = 3 -> MkRow(3, 54, 3 * MsPerDay, BadDs)
      [] i = 4 -> MkRow(4, 181, 3 * MsPerDay + 1, NullDs)
      [] i = 5 -> MkRow(5, 70, MsPerDay + 1, DsOf(MsPerDay + 1))
      [] i = 6 -> MkRow(6, 180, 3 * MsPerDay, DsOf(3 * MsPerDay))
      [] i = 7 -> MkRow(7, 60, 2 * MsPerDay, DsOf(2 * MsPerDay))
      [] OTHER -> MkRow(i, 300 + i, MsPerDay, DsOf(MsPerDay))

\* the stores that hold some of these rows
ViewStores ==
    {SetToBag(S) : S \in (SUBSET {ViewRow(i) : i \in 1..NumViewRows}) \ {{}}}

\* --hour-start and --hour-end: None, or one of choices=range(24)
HourWindows ==
    {<<NullV, NullV>>, <<Num(0), NullV>>, <<Num(0), Num(6)>>,
     <<Num(6), Num(22)>>, <<Num(22), Num(6)>>, <<Num(6), Num(6)>>,
     <<Num(12), Num(12)>>}

\* `hour_start is not None and hour_end is not None`
HasWindow(hs, he) == hs.k = "num" /\ he.k = "num"

SqlStrictlyBetween(h, hs, he) == hs.v < h /\ h < he.v

\* SQL: hour BETWEEN ? AND ?
SqlBetween(h, hs, he) == hs.v <= h /\ h <= he.v

\* the rows of st that a WHERE clause keeps, in ORDER BY date_ms
DayRows(st, day, hs, he) ==
    LET S == {r \in BagToSet(st) :
                /\ LocalDay(r.date_ms) = day
                /\ HasWindow(hs, he) => SqlBetween(LocalHour(r.date_ms), hs, he)}
    IN RowsByDate([r \in S |-> CopiesIn(r, st)])

\* the date argument of view_day
Today == [k |-> "today", d |-> 0]
Yesterday == [k |-> "yesterday", d |-> 0]
IsoDate(d) == [k |-> "iso", d |-> d]
BadDate == [k |-> "bad", d |-> 0]

\* parse_date_arg at time t
ParseDateArg(a, t) ==
    IF a.k = "today" THEN [kind |-> "date", d |-> LocalDay(t)]
    ELSE IF a.k = "yesterday" THEN [kind |-> "date", d |-> LocalDay(t) - 1]
    ELSE IF a.k = "iso" THEN [kind |-> "date", d |-> a.d]
    ELSE [kind |-> "raise", d |-> 0]

\* the status chain of view_day and its in-range sum compare a value with
\* a threshold that is None: TypeError
CompareRaises(values, th) ==
    \/ th.urgent_low.k # "num"
    \/ th.target_low.k # "num"
    \/ \E i \in 1..Len(values) :
         /\ values[i] >= th.target_low.v
         /\ th.urgent_high.k # "num" \/ th.target_high.k # "num"

DayStatusStrict(sgv, th) ==
    IF sgv < th.urgent_low.v THEN "very_low"
    ELSE IF sgv < th.target_low.v THEN "low"
    ELSE IF sgv >= th.urgent_high.v THEN "very_high"
    ELSE IF sgv >= th.target_high.v THEN "high"
    ELSE "in_range"

\* the status of a reading in view_day
DayStatus(sgv, th) ==
    IF sgv < th.urgent_low.v THEN "very_low"
    ELSE IF sgv < th.target_low.v THEN "low"
    ELSE IF sgv > th.urgent_high.v THEN "very_high"
    ELSE IF sgv > th.target_high.v THEN "high"
    ELSE "in_range"

\* time_filter of view_day and find_worst_days
TimeFilter(hs, he) == IF hs.k = "num" THEN <<hs, he>> ELSE <<>>

\* view_day after ensure_data, on the store st at time t with settings s
ViewDay(st, t, a, hs, he, s) ==
    LET date == ParseDateArg(a, t)
        rows == DayRows(st, date.d, hs, he)
        n == Len(rows)
        values == [i \in 1..n |-> rows[i].sgv]
        th == GetThresholds(s)
    IN IF date.kind = "raise"
       THEN [kind |-> "error", error |-> "Could not parse date"]
       ELSE IF rows = <<>>
       THEN [kind |-> "error", error |-> "No readings found", date |-> date.d]
       ELSE IF th.kind = "raise" THEN Raise
       ELSE IF \E i \in 1..n : rows[i].ds.k = "null" THEN Raise
       ELSE IF CompareRaises(values, th) THEN Raise
       ELSE IF UseMmol(s).kind = "raise" THEN Raise
       ELSE LET mmol == UseMmol(s).mmol
                sv == Sorted(values)
                InRange(v) == th.target_low.v <= v /\ v <= th.target_high.v
            IN [kind |-> "day",
                date |-> date.d,
                filter |-> TimeFilter(hs, he),
                readings_count |-> n,
                statistics |->
                  [average |-> ConvertGlucose(10 * RoundHalfEven(SumSeq(values), n), mmol),
                   min |-> ConvertGlucose(10 * sv[1], mmol),
                   max |-> ConvertGlucose(10 * sv[n], mmol),
                   time_in_range_pct |-> Pct(CountIf(values, InRange), n)],
                readings |-> [i \in 1..n |->
                                [glucose |-> ConvertGlucose(10 * values[i], mmol),
                                 parsed |-> rows[i].ds.k = "iso",
                                 status |-> DayStatus(values[i], th)]],
                unit |-> GetUnitLabel(s).unit]

\* --------------------------------------------------------- the day ranker
\* sgv > ?, sgv < ? and sgv BETWEEN ? AND ? in a CASE: a parameter that is
\* NULL makes the comparison NULL, which CASE takes as false
SqlGt(v, m) == m.k = "num" /\ v > m.v
SqlLt(v, m) == m.k = "num" /\ v < m.v
SqlIn(v, lo, hi) == lo.k = "num" /\ hi.k = "num" /\ lo.v <= v /\ v <= hi.v

\* WHERE date_ms >= ? [AND hour BETWEEN ? AND ?] of find_worst_days
WorstRows(st, cutoff, hs, he) ==
    LET S == {r \in BagToSet(st) :
                /\ r.date_ms >= cutoff
                /\ HasWindow(hs, he) => SqlBetween(LocalHour(r.date_ms), hs, he)}
    IN [r \in S |-> CopiesIn(r, st)]

\* the rows of b that are in S, with their multiplicities
RowsIn(b, S) == [r \in S \cap BagToSet(b) |-> CopiesIn(r, b)]

\* SUM(sgv)
RECURSIVE SumBag(_)
SumBag(b) ==
    IF BagToSet(b) = {} THEN 0
    ELSE LET r == CHOOSE x \in BagToSet(b) : TRUE
         IN r.sgv * CopiesIn(r, b) + SumBag(RowsIn(b, BagToSet(b) \ {r}))

\* the aggregates of the rows S of one day, b holding the selected rows
DayGroup(S, b, th) ==
    [day |-> CHOOSE day \in {LocalDay(r.date_ms) : r \in S} : TRUE,
     peak |-> CHOOSE v \in {r.sgv : r \in S} : \A r \in S : r.sgv <= v,
     trough |-> CHOOSE v \in {r.sgv : r \in S} : \A r \in S : v <= r.sgv,
     sum |-> SumBag(RowsIn(b, S)),
     readings |-> BagCardinality(RowsIn(b, S)),
     high_count |->
       BagCardinality(RowsIn(b, {r \in S : SqlGt(r.sgv, th.target_high)})),
     low_count |->
       BagCardinality(RowsIn(b, {r \in S : SqlLt(r.sgv, th.target_low)})),
     in_range_count |->
       BagCardinality(RowsIn(b, {r \in S : SqlIn(r.sgv, th.target_low,
                                                 th.target_high)}))]

\* GROUP BY day: one row of aggregates for each day that has a reading
DayGroups(b, th) ==
    {DayGroup({r \in BagToSet(b) : LocalDay(r.date_ms) = day}, b, th) :
       day \in {LocalDay(r.date_ms) : r \in BagToSet(b)}}

AscendingPeak(q) ==
    \A i, j \in 1..Len(q) : i < j => q[i].peak <= q[j].peak

\* ORDER BY peak DESC: q lists the rows by peak, highest first
ByPeakDesc(q) ==
    \A i, j \in 1..Len(q) : i < j => q[i].peak >= q[j].peak

\* the orders in which the query may return the rows of g (days of equal
\* peak come in an order SQLite does not fix)
RankOrders(g) ==
    {q \in [1..Cardinality(g) -> g] :
        /\ \A i, j \in 1..Cardinality(g) : i # j => q[i] # q[j]
        /\ ByPeakDesc(q)}

TakeOneMore(q, limit) ==
    SubSeq(q, 1, IF limit + 1 <= Len(q) THEN limit + 1 ELSE Len(q))

\* rows[:limit]
Take(q, limit) ==
    IF limit >= 0
    THEN SubSeq(q, 1, IF limit <= Len(q) THEN limit ELSE Len(q))
    ELSE SubSeq(q, 1, IF Len(q) + limit >= 0 THEN Len(q) + limit ELSE 0)

\* one element of worst_days
WorstDay(a, mmol) ==
    [date |-> a.day,
     peak |-> ConvertGlucose(10 * a.peak, mmol),
     trough |-> ConvertGlucose(10 * a.trough, mmol),
     average |-> ConvertGlucose(10 * RoundHalfEven(a.sum, a.readings), mmol),
     readings |-> a.readings,
     time_in_range_pct |-> Pct(a.in_range_count, a.readings),
     high_readings |-> a.high_count,
     low_readings |-> a.low_count]

\* the lists of rows the query of find_worst_days may return on the store
\* st at time t (none when get_thresholds has raised before it)
WorstOrders(st, t, d, hs, he, s) ==
    IF GetThresholds(s).kind = "raise" THEN {<<>>}
    ELSE RankOrders(DayGroups(WorstRows(st, CutoffMs(t, d), hs, he),
                              GetThresholds(s)))

\* find_worst_days after ensure_data with settings s, the query having
\* returned rows
FindWorstDays(d, hs, he, limit, s, rows) ==
    LET top == Take(rows, limit)
    IN IF GetThresholds(s).kind = "raise" THEN Raise
       ELSE IF rows = <<>> THEN NoDataError
       ELSE IF UseMmol(s).kind = "raise" THEN Raise
       ELSE [kind |-> "worst",
             days_analyzed |-> d,
             filter |-> TimeFilter(hs, he),
             worst_days |-> [i \in 1..Len(top) |->
                               WorstDay(top[i], UseMmol(s).mmol)],
             unit |-> GetUnitLabel(s).unit]

\* ------------------------------------------------------ the pattern query
\* --day: None, or a weekday 0..6 (a name is turned into its index)
DayOpts == {NullV, Num(2), Num(5)}

NoWrap(h, hs, he) == hs.v <= h /\ h < he.v

\* the hour test of query_patterns, once both hours are given
InHours(h, hs, he) ==
    IF hs.v <= he.v THEN hs.v <= h /\ h < he.v
    ELSE h >= hs.v \/ h < he.v

\* the body of the filter loop: the row reaches filtered.append
QueryKeeps(r, dow, hs, he) ==
    /\ r.ds.k = "iso"
    /\ dow.k = "num" => Weekday(r.ds.d) = dow.v
    /\ HasWindow(hs, he) => InHours(r.ds.h, hs, he)

\* filtered, in the order of rows
RECURSIVE Filtered(_, _, _, _)
Filtered(rows, dow, hs, he) ==
    IF rows = <<>> THEN <<>>
    ELSE (IF QueryKeeps(Head(rows), dow, hs, he) THEN <<Head(rows)>> ELSE <<>>)
         \o Filtered(Tail(rows), dow, hs, he)

\* the values of the rows whose text parses to weekday w
RECURSIVE WeekdayValues(_, _)
WeekdayValues(rows, w) ==
    IF rows = <<>> THEN <<>>
    ELSE (IF Head(rows).ds.k = "iso" /\ Weekday(Head(rows).ds.d) = w
          THEN <<Head(rows).sgv>> ELSE <<>>) \o WeekdayValues(Tail(rows), w)

\* daily_avg: weekday -> convert_glucose(round(sum / len, 0))
DailyAverages(rows, mmol) ==
    LET W == {Weekday(rows[i].ds.d) :
                i \in {j \in 1..Len(rows) : rows[j].ds.k = "iso"}}
    IN [w \in W |->
          LET v == WeekdayValues(rows, w)
          IN ConvertGlucose(10 * RoundHalfEven(SumSeq(v), Len(v)), mmol)]

NoMatchError == [kind |-> "error", error |-> "No readings match the specified filters."]

\* filter_desc
FilterDesc(dow, hs, he) ==
    (IF dow.k = "num" THEN <<dow>> ELSE <<>>)
    \o (IF HasWindow(hs, he) THEN <<hs, he>> ELSE <<>>)

\* query_patterns after ensure_data, on the store st at time t with
\* settings s
QueryPatterns(st, t, d, dow, hs, he, s) ==
    LET rows == RowsByDate(Selected(st, CutoffMs(t, d)))
        filtered == Filtered(rows, dow, hs, he)
        values == [i \in 1..Len(filtered) |-> filtered[i].sgv]
    IN IF rows = <<>> THEN NoDataError
       ELSE IF \E i \in 1..Len(rows) : rows[i].ds.k = "null" THEN Raise
       ELSE IF filtered = <<>> THEN NoMatchError
       ELSE IF UseMmol(s).kind = "raise" THEN Raise
       ELSE IF ~Comparable(GetThresholds(s)) THEN Raise
       ELSE LET mmol == UseMmol(s).mmol IN
            [kind |-> "query",
             filter |-> FilterDesc(dow, hs, he),
             days_analyzed |-> d,
             readings_matched |-> Len(filtered),
             statistics |-> GetStats(values, mmol),
             time_in_range |-> GetTimeInRange(values, GetThresholds(s)),
             hourly_averages |-> HourlyAverages(filtered, mmol),
             daily_averages |-> DailyAverages(filtered, mmol),
             unit |-> GetUnitLabel(s).unit]

\* ------------------------------------------------------ the pattern miner
\* the keys of a dict in insertion order: the distinct elements of q in the
\* order of their first occurrence
RECURSIVE Keys(_)
Keys(q) ==
    IF q = <<>> THEN <<>>
    ELSE LET r == Keys(SubSeq(q, 1, Len(q) - 1))
             x == q[Len(q)]
         IN IF \E i \in 1..Len(r) : r[i] = x THEN r ELSE Append(r, x)

\* a ratio c / n as the pair it is computed from; Less compares two ratios
Less(a, b) == a.c * b.n < b.c * a.n

LastMax(ks, f) ==
    ks[CHOOSE i \in 1..Len(ks) :
         /\ \A j \in 1..Len(ks) : ~Less(f[ks[i]], f[ks[j]])
         /\ \A j \in (i + 1)..Len(ks) : Less(f[ks[j]], f[ks[i]])]

\* max(d, key=d.get): the first key, in insertion order, of greatest value
FirstMax(ks, f) ==
    ks[CHOOSE i \in 1..Len(ks) :
         /\ \A j \in 1..Len(ks) : ~Less(f[ks[i]], f[ks[j]])
         /\ \A j \in 1..(i - 1) : Less(f[ks[j]], f[ks[i]])]

\* min(d, key=d.get)
FirstMin(ks, f) ==
    ks[CHOOSE i \in 1..Len(ks) :
         /\ \A j \in 1..Len(ks) : ~Less(f[ks[j]], f[ks[i]])
         /\ \A j \in 1..(i - 1) : Less(f[ks[i]], f[ks[j]])]

\* the rows whose text parses, in the order of rows
RECURSIVE ParsedRows(_)
ParsedRows(rows) ==
    IF rows = <<>> THEN <<>>
    ELSE (IF Head(rows).ds.k = "iso" THEN <<Head(rows)>> ELSE <<>>)
         \o ParsedRows(Tail(rows))

\* lows: the parsed rows below the low target, in the order of rows; the
\* comparison with a target that is None raises TypeError inside the try
RECURSIVE Lows(_, _)
Lows(rows, th) ==
    IF rows = <<>> THEN <<>>
    ELSE (IF th.target_low.k = "num" /\ Head(rows).sgv < th.target_low.v
          THEN <<Head(rows)>> ELSE <<>>) \o Lows(Tail(rows), th)

\* sum(1 for x in v if target_low <= x <= target_high) over len(v)
TirOf(v, th) ==
    LET InRange(x) == th.target_low.v <= x /\ x <= th.target_high.v
    IN [c |-> CountIf(v, InRange), n |-> Len(v)]

\* one of best_time_of_day, worst_time_of_day, best_day, worst_day
Insight(key, v, th, mmol) ==
    [key |-> key,
     time_in_range |-> Pct(TirOf(v, th).c, Len(v)),
     avg_glucose |-> ConvertGlucose(10 * RoundHalfEven(SumSeq(v), Len(v)), mmol)]

\* the least number of readings of a weekday and hour to be ranked
MinComboReadings == 10

NotApplicable == [k |-> "N/A", v |-> 0]

\* the values of the parsed rows of weekday w and hour h
RECURSIVE ComboValues(_, _, _)
ComboValues(rows, w, h) ==
    IF rows = <<>> THEN <<>>
    ELSE (IF Weekday(Head(rows).ds.d) = w /\ Head(rows).ds.h = h
          THEN <<Head(rows).sgv>> ELSE <<>>) \o ComboValues(Tail(rows), w, h)

\* sorted(items, key=value) and sorted(items, key=value, reverse=True): both
\* keep items of equal value in their first order
RECURSIVE InsertBy(_, _, _, _)
InsertBy(x, q, f, desc) ==
    IF q = <<>> THEN <<x>>
    ELSE IF (IF desc THEN Less(f[Head(q)], f[x]) ELSE Less(f[x], f[Head(q)]))
    THEN <<x>> \o q
    ELSE <<Head(q)>> \o InsertBy(x, Tail(q), f, desc)

RECURSIVE SortBy(_, _, _)
SortBy(ks, f, desc) ==
    IF ks = <<>> THEN <<>>
    ELSE InsertBy(ks[Len(ks)], SortBy(SubSeq(ks, 1, Len(ks) - 1), f, desc), f, desc)

\* the hour_tir and day_tir expressions compare a value with a target that
\* is None, outside any try: TypeError
TirRaises(values, th) ==
    \/ th.target_low.k # "num"
    \/ /\ th.target_high.k # "num"
       /\ \E i \in 1..Len(values) : values[i] >= th.target_low.v

\* find_patterns after ensure_data, on the store st at time t with settings s
FindPatterns(st, t, d, s) ==
    LET rows == RowsByDate(Selected(st, CutoffMs(t, d)))
        th == GetThresholds(s)
        parsed == ParsedRows(rows)
        n == Len(parsed)
        hours == Keys([i \in 1..n |-> parsed[i].ds.h])
        wdays == Keys([i \in 1..n |-> Weekday(parsed[i].ds.d)])
        pairs == Keys([i \in 1..n |-> <<Weekday(parsed[i].ds.d), parsed[i].ds.h>>])
    IN IF rows = <<>> THEN NoDataError
       ELSE IF th.kind = "raise" THEN Raise
       ELSE IF \E i \in 1..Len(rows) : rows[i].ds.k = "null" THEN Raise
       ELSE IF parsed = <<>> THEN Raise
       ELSE IF TirRaises([i \in 1..n |-> parsed[i].sgv], th) THEN Raise
       ELSE IF UseMmol(s).kind = "raise" THEN Raise
       ELSE LET mmol == UseMmol(s).mmol
                H == {hours[i] : i \in 1..Len(hours)}
                W == {wdays[i] : i \in 1..Len(wdays)}
                hour_tir == [h \in H |-> TirOf(HourValues(parsed, h), th)]
                day_tir == [w \in W |-> TirOf(WeekdayValues(parsed, w), th)]
                ranked == SelectSeq(pairs, LAMBDA p :
                            Len(ComboValues(parsed, p[1], p[2])) >= MinComboReadings)
                combo_tir == [p \in {ranked[i] : i \in 1..Len(ranked)} |->
                                TirOf(ComboValues(parsed, p[1], p[2]), th)]
                Combo(p) == [when |-> p,
                             time_in_range |-> Pct(combo_tir[p].c, combo_tir[p].n)]
                worst == Take(SortBy(ranked, combo_tir, FALSE), 3)
                best == Take(SortBy(ranked, combo_tir, TRUE), 3)
                lows == Lows(parsed, th)
                lh == Keys([i \in 1..Len(lows) |-> lows[i].ds.h])
                ld == Keys([i \in 1..Len(lows) |-> Weekday(lows[i].ds.d)])
                low_hours == [h \in {lh[i] : i \in 1..Len(lh)} |->
                                [c |-> Len(HourValues(lows, h)), n |-> 1]]
                low_days == [w \in {ld[i] : i \in 1..Len(ld)} |->
                               [c |-> Len(WeekdayValues(lows, w)), n |-> 1]]
                Hour(h) == Insight(h, HourValues(parsed, h), th, mmol)
                Day(w) == Insight(w, WeekdayValues(parsed, w), th, mmol)
            IN [kind |-> "patterns",
                days_analyzed |-> d,
                total_readings |-> Len(rows),
                best_time_of_day |-> Hour(FirstMax(hours, hour_tir)),
                worst_time_of_day |-> Hour(FirstMin(hours, hour_tir)),
                best_day |-> Day(FirstMax(wdays, day_tir)),
                worst_day |-> Day(FirstMin(wdays, day_tir)),
                problem_times |-> [i \in 1..Len(worst) |-> Combo(worst[i])],
                best_times |-> [i \in 1..Len(best) |-> Combo(best[i])],
                low_events |->
                  [total |-> Len(lows),
                   most_common_hour |-> IF lh = <<>> THEN NotApplicable
                                        ELSE Num(FirstMax(lh, low_hours)),
                   most_common_day |-> IF ld = <<>> THEN NotApplicable
                                       ELSE Num(FirstMax(ld, low_days))],
                unit |-> GetUnitLabel(s).unit]

\* ------------------------------------------------------------- commands
AnalysisCmds == {"analyze", "query", "patterns", "day", "worst", "chart"}

\* the lookback a command hands to ensure_data: view_day always asks for
\* its fixed default, the others for --days
EnsureDays(c, d) == IF c = "day" THEN MaxDays ELSE d

NoResult == [kind |-> "none"]

\* no analyze has run yet
NoLast == [kind |-> "none"]

Bump(n, max) == IF n < max THEN n + 1 ELSE max

\* the arguments of a call besides days: the date, --day, --hour-start,
\* --hour-end and --limit
Args(date, dow, hs, he, limit) ==
    [date |-> date, dow |-> dow, hs |-> hs, he |-> he, limit |-> limit]
NoArgs == Args([k |-> "none", d |-> 0], NullV, NullV, NullV, 0)

NewHist(st) ==
    [ensure |-> "none", miss |-> FALSE, fetches |-> 0, fetchRes |-> "none",
     store0 |-> st, inserted |-> {}, skipped |-> FALSE, failedAt |-> 0,
     clean |-> TRUE, again |-> FALSE, new |-> 0, synced |-> {},
     args |-> NoArgs, seen |-> {}, odd |-> FALSE]

\* hist: ensure   what ensure_data returned ("pending" while it runs)
\*       miss     ensure_data found no reading and went to fetch
\*       fetches  calls of fetch_and_store made by the command
\*       fetchRes what fetch_and_store returned
\*       store0   the store when the command started
\*       inserted the rows this fetch_and_store inserted
\*       skipped  this fetch_and_store met an observation whose id was stored
\*       failedAt the number of the request that failed, 0 if none
\*       clean    the remote did not change since the command started
\*       again    a sync with this lookback succeeded on the same remote
\*       new      new_readings of the result
\*       synced   lookbacks synced with success since the remote changed
\*       args     the other arguments of the call
\*       seen     the entries of the pages this fetch_and_store was answered
\*       odd      this fetch_and_store has made an odd number of requests

NeverHasData(exists, st) == FALSE

\* `if DB_PATH.exists()` ... `if count > 0`
HasData(exists, st) == exists /\ Count(st) > 0

\* SELECT COUNT(*) FROM readings raises OperationalError (no such table)
\* when the file is there without the table
CountRaises(exists, table) == exists /\ ~table

\* ensure_data's verdict on the result of fetch_and_store
EnsureAlwaysTrue(res) == TRUE

EnsureOk(res) == res.kind # "error"

\* the first lines of fetch_and_store: create_database, cutoff, counters
StartFetch(d) ==
    /\ dbExists' = TRUE
    /\ hasTable' = TRUE
    /\ cutoff_ms' = CutoffMs(now, d)
    /\ total_new' = 0
    /\ oldest_date' = <<>>
    /\ pc' = "fetch"

\* refresh: fetch_and_store(args.days)
Refresh(d) ==
    /\ pc = "idle"
    /\ cmd' = "refresh"
    /\ days' = d
    /\ StartFetch(d)
    /\ result' = NoResult
    /\ reqs' = 0
    /\ hist' = [NewHist(store) EXCEPT !.fetches = 1, !.synced = hist.synced,
                                      !.again = d \in hist.synced]
    /\ UNCHANGED <<remote, store, now, cached, statusReqs, last>>

\* ensure_data finds readings in the store: True at once
EnsureHit(c, d) ==
    /\ pc = "idle"
    /\ c \in AnalysisCmds
    /\ HasData(dbExists, store)
    /\ cmd' = c
    /\ days' = d
    /\ pc' = "body"
    /\ result' = NoResult
    /\ reqs' = 0
    /\ hist' = [NewHist(store) EXCEPT !.ensure = "true", !.synced = hist.synced]
    /\ UNCHANGED <<remote, store, dbExists, hasTable, now, cached, cutoff_ms,
                   oldest_date, total_new, statusReqs, last>>

\* ensure_data finds no file or no reading: it calls fetch_and_store
EnsureMiss(c, d) ==
    /\ pc = "idle"
    /\ c \in AnalysisCmds
    /\ ~HasData(dbExists, store)
    /\ ~CountRaises(dbExists, hasTable)
    /\ cmd' = c
    /\ days' = d
    /\ StartFetch(EnsureDays(c, d))
    /\ result' = NoResult
    /\ reqs' = 0
    /\ hist' = [NewHist(store) EXCEPT !.ensure = "pending", !.miss = TRUE,
                                      !.fetches = 1, !.synced = hist.synced,
                                      !.again = EnsureDays(c, d) \in hist.synced]
    /\ UNCHANGED <<remote, store, now, cached, statusReqs, last>>

\* ensure_data on a file without the table: the count raises, and the
\* command with it
EnsureRaise(c, d) ==
    /\ pc = "idle"
    /\ c \in AnalysisCmds
    /\ CountRaises(dbExists, hasTable)
    /\ cmd' = c
    /\ days' = d
    /\ pc' = "done"
    /\ result' = Raise
    /\ reqs' = 0
    /\ hist' = [NewHist(store) EXCEPT !.ensure = "raise", !.synced = hist.synced]
    /\ UNCHANGED <<remote, store, dbExists, hasTable, now, cached, cutoff_ms,
                   oldest_date, total_new, statusReqs, last>>

\* what fetch_and_store returns after the loop
FetchSuccess(new, st) ==
    [kind |-> "success", new_readings |-> new, total_readings |-> Count(st)]

FetchError == [kind |-> "error", error |-> "Failed to fetch data"]

EnsureError == [kind |-> "error", error |-> "Could not fetch data from Nightscout"]

\* fetch_and_store has returned res to its caller: refresh prints it,
\* ensure_data turns it into a boolean for the command (h: the history so far)
Return(res, h) ==
    LET h2 == [h EXCEPT
                !.fetchRes = res.kind,
                !.new = IF res.kind = "success" THEN res.new_readings ELSE 0]
    IN
    IF cmd = "refresh"
    THEN /\ pc' = "done"
         /\ result' = res
         /\ hist' = [h2 EXCEPT
                !.synced = IF res.kind = "success" /\ h.clean
                           THEN @ \cup {days} ELSE @]
    ELSE /\ pc' = IF EnsureOk(res) THEN "body" ELSE "done"
         /\ result' = IF EnsureOk(res) THEN NoResult ELSE EnsureError
         /\ hist' = [h2 EXCEPT
                !.ensure = IF EnsureOk(res) THEN "true" ELSE "false",
                !.synced = IF res.kind = "success" /\ h.clean
                           THEN @ \cup {EnsureDays(cmd, days)} ELSE @]

\* the store an aborted sync leaves behind: every page before the failing
\* request was committed, nothing is undone
RolledBack(st, st0) == st0

AfterAbort(st, st0) == st

\* a turn of the loop whose request raises RequestException
FetchFail ==
    /\ pc = "fetch"
    /\ reqs' = Bump(reqs, MaxReqs)
    /\ store' = AfterAbort(store, hist.store0)
    /\ Return(FetchError, [hist EXCEPT !.failedAt = Bump(reqs, MaxReqs),
                                        !.odd = ~@])
    /\ UNCHANGED <<remote, dbExists, hasTable, now, cached, cmd, days, cutoff_ms,
                   oldest_date, total_new, statusReqs, last>>

\* the loop goes on after a page unless the page reaches past the cutoff
StopsAlways(oldest, cutoff) == TRUE

StopsNever(oldest, cutoff) == FALSE

StopsAfter(oldest, cutoff) == oldest < cutoff

\* a turn of the loop whose request is answered
FetchPage ==
    /\ pc = "fetch"
    /\ reqs' = Bump(reqs, MaxReqs)
    /\ LET entries == Page(remote, oldest_date) IN
       IF entries = <<>>
       THEN /\ Return(FetchSuccess(total_new, store), [hist EXCEPT !.odd = ~@])
            /\ UNCHANGED <<store, total_new, oldest_date>>
       ELSE LET sp == StorePage(store, total_new, entries)
                oldest == MinDate(entries)
                h == [hist EXCEPT
                        !.odd = ~@,
                        !.seen = @ \cup {entries[i] : i \in 1..Len(entries)},
                        !.inserted = @ \cup (BagToSet(sp.st) \ BagToSet(store)),
                        !.skipped = @ \/ \E i \in 1..Len(entries) :
                            /\ entries[i].type = "sgv"
                            /\ \/ HasId(store, entries[i].id)
                               \/ \E j \in 1..(i - 1) :
                                     /\ entries[j].type = "sgv"
                                     /\ entries[j].id = entries[i].id]
            IN /\ store' = sp.st
               /\ total_new' = sp.new
               /\ IF StopsAfter(oldest, cutoff_ms)
                  THEN /\ Return(FetchSuccess(sp.new, sp.st), h)
                       /\ UNCHANGED oldest_date
                  ELSE /\ oldest_date' = <<oldest - 1>>
                       /\ pc' = "fetch"
                       /\ result' = result
                       /\ hist' = h
    /\ UNCHANGED <<remote, dbExists, hasTable, now, cached, cmd, days, cutoff_ms,
                   statusReqs, last>>

\* ------------------------------------------------------ command bodies
\* the store as a command body leaves it: the bodies only SELECT
DropsStore(st) == EmptyBag

BodyStore(st) == st

\* analyze: analyze_cgm after ensure_data returned True
AnalyzeBody ==
    /\ pc = "body"
    /\ cmd = "analyze"
    /\ \E out \in StatusOutcomes :
         LET reads == AnalyzeReadsSettings(store, now, days)
             g == GetSettings(cached, out)
         IN /\ cached' = IF reads THEN g.cache ELSE cached
            /\ statusReqs' = IF reads /\ g.req = 1
                             THEN Bump(statusReqs, MaxStatusReqs)
                             ELSE statusReqs
            /\ result' = AnalyzeCgm(store, now, days, g.ret)
    /\ store' = BodyStore(store)
    /\ pc' = "done"
    /\ UNCHANGED <<remote, dbExists, hasTable, now, cmd, days, cutoff_ms, oldest_date,
                   total_new, reqs, hist, last>>

\* query, patterns, day, worst, chart after ensure_data returned True: they
\* SELECT from the store and, unless they return early, read the settings
ReadOnlyBody ==
    /\ pc = "body"
    /\ cmd \in AnalysisCmds \ {"analyze"}
    /\ \E out \in StatusOutcomes, reads \in BOOLEAN :
         LET g == GetSettings(cached, out)
         IN /\ cached' = IF reads THEN g.cache ELSE cached
            /\ statusReqs' = IF reads /\ g.req = 1
                             THEN Bump(statusReqs, MaxStatusReqs)
                             ELSE statusReqs
            /\ result' = IF reads /\ (UseMmol(g.ret).kind = "raise"
                                      \/ ~Comparable(GetThresholds(g.ret)))
                         THEN Raise
                         ELSE [kind |-> "output"]
    /\ store' = BodyStore(store)
    /\ pc' = "done"
    /\ UNCHANGED <<remote, dbExists, hasTable, now, cmd, days, cutoff_ms, oldest_date,
                   total_new, reqs, hist, last>>

\* the status text of get_current_glucose
CurrentStatus(sgv, t) ==
    IF sgv < t.urgent_low.v THEN "VERY LOW - urgent"
    ELSE IF sgv < t.target_low.v THEN "low"
    ELSE IF sgv <= t.target_high.v THEN "in range"
    ELSE IF sgv <= t.urgent_high.v THEN "high"
    ELSE "VERY HIGH"

\* get_current_glucose once the request has been answered with data
CurrentGlucose(data, s) ==
    IF data = <<>> THEN [kind |-> "error", error |-> "No data available"]
    ELSE IF ~Comparable(GetThresholds(s)) THEN Raise
    ELSE IF UseMmol(s).kind = "raise" THEN Raise
    ELSE [kind |-> "current",
          glucose |-> ConvertGlucose(10 * data[1].sgv, UseMmol(s).mmol),
          unit |-> GetUnitLabel(s).unit,
          status |-> CurrentStatus(data[1].sgv, GetThresholds(s))]

\* current: get_current_glucose
Current ==
    /\ pc = "idle"
    /\ cmd' = "current"
    /\ reqs' = 1
    /\ hist' = [NewHist(store) EXCEPT !.synced = hist.synced]
    /\ \/ /\ result' = [kind |-> "error", error |-> "Failed to fetch current glucose"]
          /\ UNCHANGED <<cached, statusReqs>>
       \/ \E out \in StatusOutcomes :
            LET data == TakeNewest(remote, 1)
                g == GetSettings(cached, out)
            IN /\ cached' = IF data # <<>> THEN g.cache ELSE cached
               /\ statusReqs' = IF data # <<>> /\ g.req = 1
                                THEN Bump(statusReqs, MaxStatusReqs)
                                ELSE statusReqs
               /\ result' = CurrentGlucose(data, g.ret)
    /\ pc' = "done"
    /\ UNCHANGED <<remote, store, dbExists, hasTable, now, days, cutoff_ms,
                   oldest_date, total_new, last>>

\* a direct call of get_thresholds, get_unit_label or use_mmol
Accessor(name) ==
    /\ pc = "idle"
    /\ cmd' = name
    /\ reqs' = 0
    /\ hist' = [NewHist(store) EXCEPT !.synced = hist.synced]
    /\ \E out \in StatusOutcomes :
         LET g == GetSettings(cached, out)
         IN /\ cached' = g.cache
            /\ statusReqs' = IF g.req = 1 THEN Bump(statusReqs, MaxStatusReqs)
                             ELSE statusReqs
            /\ result' = CASE name = "get_thresholds" -> GetThresholds(g.ret)
                           [] name = "get_unit_label" -> GetUnitLabel(g.ret)
                           [] OTHER -> UseMmol(g.ret)
    /\ pc' = "done"
    /\ UNCHANGED <<remote, store, dbExists, hasTable, now, days, cutoff_ms,
                   oldest_date, total_new, last>>

Accessors == {"get_thresholds", "get_unit_label", "use_mmol"}

\* ------------------------------------------------------- the environment
\* the caller has the result; the locals of the call are gone
Returned ==
    /\ pc' = "idle"
    /\ cmd' = "none"
    /\ days' = 1
    /\ cutoff_ms' = 0
    /\ oldest_date' = <<>>
    /\ total_new' = 0
    /\ result' = NoResult
    /\ reqs' = 0
    /\ hist' = [NewHist(EmptyBag) EXCEPT !.synced = hist.synced]

\* main prints the result of its one command and the process ends: the
\* next command runs in a new process, whose settings cache is None
ProcessEnd ==
    /\ pc = "done"
    /\ Returned
    /\ cached' = NoneSettings
    /\ statusReqs' = 0
    /\ UNCHANGED <<remote, store, dbExists, hasTable, now, last>>

\* a function called by a program that imports the module has returned;
\* the process, and with it the settings cache, lives on
Finish ==
    /\ pc = "done"
    /\ Returned
    /\ UNCHANGED <<remote, store, dbExists, hasTable, now, cached, statusReqs, last>>

\* the importing process ends and the next one starts
Exit ==
    /\ pc = "idle"
    /\ cached # NoneSettings \/ statusReqs # 0
    /\ cached' = NoneSettings
    /\ statusReqs' = 0
    /\ UNCHANGED <<remote, store, dbExists, hasTable, now, pc, cmd, days, cutoff_ms,
                   oldest_date, total_new, result, reqs, hist, last>>

\* time passes
Tick ==
    /\ pc \in {"idle", "fetch"}
    /\ now < MaxNow
    /\ now' = now + 1
    /\ UNCHANGED <<remote, store, dbExists, hasTable, cached, pc, cmd, days, cutoff_ms,
                   oldest_date, total_new, result, reqs, statusReqs, hist, last>>

\* the remote receives an entry
RemoteAdd(i) ==
    /\ pc \in {"idle", "fetch"}
    /\ i \in EntryIds \ remote
    /\ remote' = remote \cup {i}
    /\ hist' = [hist EXCEPT !.clean = FALSE, !.synced = {}]
    /\ UNCHANGED <<store, dbExists, hasTable, now, cached, pc, cmd, days, cutoff_ms,
                   oldest_date, total_new, result, reqs, statusReqs, last>>

Init ==
    /\ remote = {}
    /\ store = EmptyBag
    /\ dbExists = FALSE
    /\ hasTable = FALSE
    /\ last = NoLast
    /\ now = 6
    /\ cached = NoneSettings
    /\ pc = "idle"
    /\ cmd = "none"
    /\ days = 1
    /\ cutoff_ms = 0
    /\ oldest_date = <<>>
    /\ total_new = 0
    /\ result = NoResult
    /\ reqs = 0
    /\ statusReqs = 0
    /\ hist = NewHist(EmptyBag)

\* the command line: one command per process
Next ==
    \/ \E d \in Days : Refresh(d)
    \/ \E c \in AnalysisCmds, d \in Days : EnsureHit(c, d)
    \/ \E c \in AnalysisCmds, d \in Days : EnsureMiss(c, d)
    \/ FetchPage
    \/ FetchFail
    \/ AnalyzeBody
    \/ ReadOnlyBody
    \/ Current
    \/ ProcessEnd
    \/ Tick
    \/ \E i \in EntryIds : RemoteAdd(i)

Spec == Init /\ [][Next]_vars

\* the command line on a data file that was left without its table
InitCorrupt ==
    /\ remote = {}
    /\ store = EmptyBag
    /\ dbExists = TRUE
    /\ hasTable = FALSE
    /\ last = NoLast
    /\ now = 6
    /\ cached = NoneSettings
    /\ pc = "idle"
    /\ cmd = "none"
    /\ days = 1
    /\ cutoff_ms = 0
    /\ oldest_date = <<>>
    /\ total_new = 0
    /\ result = NoResult
    /\ reqs = 0
    /\ statusReqs = 0
    /\ hist = NewHist(EmptyBag)

NextCorrupt ==
    \/ Next
    \/ \E c \in AnalysisCmds, d \in Days : EnsureRaise(c, d)

SpecCorrupt == InitCorrupt /\ [][NextCorrupt]_vars

\* ------------------------------------------------- the analysis functions
\* a program that imports the module calls an analysis function on a store
\* that holds readings (ensure_data returns True at once), the settings
\* having been read before
Call(c, d, a, res) ==
    /\ pc = "idle"
    /\ HasData(dbExists, store)
    /\ IsCached(cached)
    /\ cmd' = c
    /\ days' = d
    /\ pc' = "done"
    /\ result' = res
    /\ reqs' = 0
    /\ hist' = [NewHist(store) EXCEPT !.ensure = "true", !.args = a]
    /\ UNCHANGED <<remote, store, dbExists, hasTable, now, cached, cutoff_ms,
                   oldest_date, total_new, statusReqs, last>>

NoDate == NoArgs.date

MaxLimit == 3
Limits == 0..MaxLimit

DateArgs == {Today, Yesterday, IsoDate(1), BadDate}

CallAnalyze(d) ==
    Call("analyze", d, NoArgs, AnalyzeCgm(store, now, d, cached))

CallQuery(d, dow, hs, he) ==
    Call("query", d, Args(NoDate, dow, hs, he, 0),
         QueryPatterns(store, now, d, dow, hs, he, cached))

CallPatterns(d) ==
    Call("patterns", d, NoArgs, FindPatterns(store, now, d, cached))

CallDay(a, hs, he) ==
    Call("day", EnsureDays("day", 1), Args(a, NullV, hs, he, 0),
         ViewDay(store, now, a, hs, he, cached))

CallWorst(d, hs, he, limit) ==
    /\ pc = "idle"
    /\ \E q \in WorstOrders(store, now, d, hs, he, cached) :
         Call("worst", d, Args(NoDate, NullV, hs, he, limit),
              FindWorstDays(d, hs, he, limit, cached, q))

\* the settings a process holds once it has read them
ViewSettings == {Fetched(out) : out \in StatusOutcomes} \ {NoneSettings}

InitView ==
    /\ remote = {}
    /\ store \in ViewStores
    /\ dbExists = TRUE
    /\ hasTable = TRUE
    /\ last = NoLast
    /\ now = MaxNow
    /\ cached \in ViewSettings
    /\ pc = "idle"
    /\ cmd = "none"
    /\ days = 1
    /\ cutoff_ms = 0
    /\ oldest_date = <<>>
    /\ total_new = 0
    /\ result = NoResult
    /\ reqs = 0
    /\ statusReqs = 0
    /\ hist = NewHist(store)

NextView ==
    \/ \E d \in Days : CallAnalyze(d)
    \/ \E d \in Days, dow \in DayOpts, w \in HourWindows :
         CallQuery(d, dow, w[1], w[2])
    \/ \E d \in Days : CallPatterns(d)
    \/ \E a \in DateArgs, w \in HourWindows : CallDay(a, w[1], w[2])
    \/ \E d \in Days, w \in HourWindows, limit \in Limits :
         CallWorst(d, w[1], w[2], limit)
    \/ Finish

SpecView == InitView /\ [][NextView]_vars

\* ------------------------------------------------------- analyze, again
\* the analyze command has printed its result and its process ends; last
\* keeps the output with the lookback, the time and the settings it came from
EndRun ==
    /\ pc = "done"
    /\ cmd = "analyze"
    /\ last' = [kind |-> "run", out |-> result, days |-> days, now |-> now,
                settings |-> cached]
    /\ Returned
    /\ cached' = NoneSettings
    /\ statusReqs' = 0
    /\ UNCHANGED <<remote, store, dbExists, hasTable, now>>

\* analyze is run time and again on a store that holds readings
InitTwice ==
    /\ remote = {}
    /\ store \in ViewStores
    /\ dbExists = TRUE
    /\ hasTable = TRUE
    /\ last = NoLast
    /\ now = MaxNow - 2
    /\ cached = NoneSettings
    /\ pc = "idle"
    /\ cmd = "none"
    /\ days = 1
    /\ cutoff_ms = 0
    /\ oldest_date = <<>>
    /\ total_new = 0
    /\ result = NoResult
    /\ reqs = 0
    /\ statusReqs = 0
    /\ hist = NewHist(EmptyBag)

NextTwice ==
    \/ \E d \in Days : EnsureHit("analyze", d)
    \/ AnalyzeBody
    \/ EndRun
    \/ Tick

SpecTwice == InitTwice /\ [][NextTwice]_vars

\* a process that imports the module and calls the settings accessors and
\* get_current_glucose any number of times
NextLib ==
    \/ \E a \in Accessors : Accessor(a)
    \/ Current
    \/ Finish
    \/ Exit
    \/ \E i \in EntryIds : RemoteAdd(i)

SpecLib == Init /\ [][NextLib]_vars


\* ---------------------------------------------------- the entries address
\* A URL is the sequence of the pieces its text has between slashes:
\* "https://h.com/api/" is <<"https:", "", "h.com", "api", "">>.
MaxSlashes == 2

Hosts == {<<"https:", "", "h.com">>, <<"https:", "", "my-ns.herokuapp.com">>,
          <<"http:", "", "ns.example.org:1337">>}

\* what the documentation and the tests put after the host
ApiPaths == {<<>>, <<"api">>, <<"api", "v1">>, <<"api", "v1", "entries">>,
             <<"api", "v1", "entries.json">>}

\* other paths: a site under a prefix, and paths that only resemble the API's
OtherPaths == {<<"ns">>, <<"ns", "api">>, <<"myapi">>, <<"api", "v2">>,
               <<"v1">>, <<"entries.json">>, <<"api", "v1", "entries.js">>}

Slashes(k) == [i \in 1..k |-> ""]

Urls ==
    {h \o p \o Slashes(k) : h \in Hosts, p \in ApiPaths \cup OtherPaths,
                            k \in 0..MaxSlashes}
    \cup {<<"">>, <<"", "api">>, <<"api", "v1">>, <<"", "">>}

\* url.rstrip("/")
RECURSIVE RStrip(_)
RStrip(u) ==
    IF Len(u) > 1 /\ u[Len(u)] = "" THEN RStrip(SubSeq(u, 1, Len(u) - 1))
    ELSE u

\* url.endswith("/" + the pieces of suf joined by slashes)
EndsWith(u, suf) ==
    /\ Len(u) > Len(suf)
    /\ SubSeq(u, Len(u) - Len(suf) + 1, Len(u)) = suf

LeavesAsIs(u) == u

\* url + ".json", url ending in entries
AddJson(u) == [u EXCEPT ![Len(u)] = "entries.json"]

NormalizeFrom(url) ==
    IF EndsWith(url, <<"api", "v1", "entries.json">>) THEN url
    ELSE IF EndsWith(url, <<"api", "v1", "entries">>) THEN AddJson(url)
    ELSE IF EndsWith(url, <<"api", "v1">>) THEN url \o <<"entries.json">>
    ELSE IF EndsWith(url, <<"api">>) THEN url \o <<"v1", "entries.json">>
    ELSE url \o <<"api", "v1", "entries.json">>

NormalizeNightscoutUrl(url) == NormalizeFrom(RStrip(url))

\* a call of _normalize_nightscout_url, as at import and in the tests
CallNormalize(u) ==
    /\ pc = "idle"
    /\ cmd' = "_normalize_nightscout_url"
    /\ pc' = "done"
    /\ result' = [kind |-> "url", arg |-> u, url |-> NormalizeNightscoutUrl(u)]
    /\ reqs' = 0
    /\ hist' = NewHist(store)
    /\ UNCHANGED <<remote, store, dbExists, hasTable, now, cached, days,
                   cutoff_ms, oldest_date, total_new, statusReqs, last>>

\* the function is called on what it returned
CallNormalizeAgain ==
    /\ pc = "done"
    /\ result.kind = "url"
    /\ result.arg # result.url
    /\ result' = [kind |-> "url", arg |-> result.url,
                  url |-> NormalizeNightscoutUrl(result.url)]
    /\ UNCHANGED <<remote, store, dbExists, hasTable, now, cached, pc, cmd,
                   days, cutoff_ms, oldest_date, total_new, reqs, statusReqs,
                   hist, last>>

NextUrl ==
    \/ \E u \in Urls : CallNormalize(u)
    \/ CallNormalizeAgain
    \/ Finish

SpecUrl == Init /\ [][NextUrl]_vars


\* ------------------------------------------------------------- one sync
\* refresh is run against a remote that holds some history and does not
\* change; the lookback may reach back to the epoch and beyond
SyncEntries == 1..(NumEntries + 2)

SyncDays == 1..(MaxDays + 1)

InitSync ==
    /\ remote \in SUBSET SyncEntries
    /\ store = EmptyBag
    /\ dbExists = FALSE
    /\ hasTable = FALSE
    /\ last = NoLast
    /\ now = 6
    /\ cached = NoneSettings
    /\ pc = "idle"
    /\ cmd = "none"
    /\ days = 1
    /\ cutoff_ms = 0
    /\ oldest_date = <<>>
    /\ total_new = 0
    /\ result = NoResult
    /\ reqs = 0
    /\ statusReqs = 0
    /\ hist = NewHist(EmptyBag)

NextSync ==
    \/ \E d \in SyncDays : Refresh(d)
    \/ FetchPage
    \/ FetchFail

SpecSync == InitSync /\ [][NextSync]_vars

\* `while True` goes on to its next request as long as it can
SpecSyncFair == SpecSync /\ WF_vars(FetchPage)


\* ------------------------------------------------------- the three bands
\* One reading, just synced, is the newest the remote has and the only one
\* of today in the store; the site's thresholds are any four of a few
\* levels, in order or not.  get_current_glucose, view_day and analyze_cgm
\* are called on it.
BandLevels == {60, 70, 180}

BandValues == {59, 60, 61, 69, 70, 71, 179, 180, 181}

BandSettings ==
    {Settings("dict", "mg/dl", Thr("dict", Num(a), Num(b), Num(c), Num(d))) :
        a \in BandLevels, b \in BandLevels, c \in BandLevels, d \in BandLevels}

\* resp.json() of get_current_glucose: the newest entry, which is the
\* stored reading
LatestData == LET r == CHOOSE x \in BagToSet(store) : TRUE IN <<r>>

CallCurrent ==
    Call("current", 1, NoArgs, CurrentGlucose(LatestData, cached))

InitBands ==
    /\ remote = {}
    /\ \E v \in BandValues :
         store = SetToBag({MkRow(1, v, MaxNow, DsOf(MaxNow))})
    /\ dbExists = TRUE
    /\ hasTable = TRUE
    /\ last = NoLast
    /\ now = MaxNow
    /\ cached \in BandSettings
    /\ pc = "idle"
    /\ cmd = "none"
    /\ days = 1
    /\ cutoff_ms = 0
    /\ oldest_date = <<>>
    /\ total_new = 0
    /\ result = NoResult
    /\ reqs = 0
    /\ statusReqs = 0
    /\ hist = NewHist(store)

NextBands ==
    \/ CallCurrent
    \/ CallDay(Today, NullV, NullV)
    \/ \E d \in Days : CallAnalyze(d)
    \/ Finish

SpecBands == InitBands /\ [][NextBands]_vars

\* ------------------------------------------------------------ properties
\* C1: no two rows of the store have the same id, whatever syncs ran,
\* finished or aborted, against whatever the remote held.
C1_IdUnique ==
    /\ \A r \in BagToSet(store) : CopiesIn(r, store) = 1
    /\ \A r1, r2 \in BagToSet(store) : r1.id = r2.id => r1 = r2

\* a finished sync that met an observation whose id was already stored
C1_Witness ==
    /\ pc = "done" /\ cmd = "refresh" /\ result.kind = "success"
    /\ hist.skipped
    /\ Count(store) > 0

\* C2: a sync that succeeds after a successful sync with the same lookback,
\* the remote unchanged since, reports new_readings = 0 and leaves the store
\* as it found it.
C2_ResyncAddsNothing ==
    (hist.fetchRes = "success" /\ hist.again /\ hist.clean)
        => (hist.new = 0 /\ store = hist.store0)

\* a repeated successful refresh on a store that holds readings
C2_Witness ==
    /\ pc = "done" /\ cmd = "refresh" /\ result.kind = "success"
    /\ hist.again /\ hist.clean
    /\ Count(store) >= 2

\* C3: whenever ensure_data has returned True the store holds a reading.
C3_EnsureTrueHasData ==
    hist.ensure = "true" => Count(store) > 0

\* C4: a command that starts while the store holds a reading gets True from
\* ensure_data in that step, with no remote request and the store untouched,
\* for every lookback and every age of the stored readings.
C4_EnsureHitFrame ==
    [][(pc = "idle" /\ cmd' \in AnalysisCmds /\ dbExists /\ Count(store) > 0)
          => /\ hist'.ensure = "true"
             /\ pc' = "body"
             /\ reqs' = 0 /\ statusReqs' = statusReqs
             /\ store' = store /\ dbExists' = dbExists]_vars

\* ensure_data returned True at once although every stored reading is older
\* than the lookback asked for
C4_Witness ==
    /\ pc = "body" /\ hist.ensure = "true" /\ ~hist.miss
    /\ reqs = 0
    /\ \A r \in BagToSet(store) : r.date_ms < CutoffMs(now, days)

\* C5: on an empty or absent store ensure_data calls fetch_and_store once,
\* never again, and returns True exactly when that call reported no error.
C5_EnsureFetchesOnce ==
    /\ hist.fetches <= 1
    /\ hist.miss => hist.fetches = 1
    /\ (hist.miss /\ hist.ensure \in {"true", "false"})
          => /\ hist.fetchRes \in {"success", "error"}
             /\ hist.ensure = "true" <=> hist.fetchRes = "success"
    /\ (hist.miss /\ hist.ensure = "false") => pc = "done"

\* ensure_data returned False after its one fetch failed on a later page
C5_Witness ==
    /\ hist.miss /\ hist.ensure = "false" /\ hist.fetchRes = "error"
    /\ hist.fetches = 1
    /\ reqs >= 2

\* C6: when the request for page k fails the sync returns an error, no
\* further request is made, and the rows of pages 1..k-1 stay in the store.
C6_AbortKeepsPages ==
    hist.failedAt > 0 =>
        /\ pc = "done"
        /\ result.kind = "error"
        /\ reqs = hist.failedAt
        /\ \A r \in hist.inserted : BagIn(r, store)

\* a refresh whose second or later request failed after rows were inserted
C6_Witness ==
    /\ cmd = "refresh" /\ hist.failedAt >= 2
    /\ hist.inserted # {}

\* C7: a process requests the status endpoint at most once, whatever the
\* first request came to.
C7_StatusRequestedOnce ==
    statusReqs <= 1

\* the settings member m is no number
Unavailable(m) == m.k # "num"

\* C8: whatever the status request came to, no accessor raises;
\* get_thresholds gives the default for every boundary that is unavailable
\* and the unit is mg/dL when no unit is available.
C8_AccessorsFallBack ==
    (pc = "done" /\ cmd \in Accessors) =>
        /\ result.kind = "value"
        /\ cmd = "get_thresholds" =>
            /\ Unavailable(cached.thresholds.bgLow)
                  => result.urgent_low = Num(DefaultUrgentLow)
            /\ Unavailable(cached.thresholds.bgTargetBottom)
                  => result.target_low = Num(DefaultTargetLow)
            /\ Unavailable(cached.thresholds.bgTargetTop)
                  => result.target_high = Num(DefaultTargetHigh)
            /\ Unavailable(cached.thresholds.bgHigh)
                  => result.urgent_high = Num(DefaultUrgentHigh)
        /\ (cmd = "get_unit_label" /\ cached.units \in {"absent", "null"})
              => result.unit = "mg/dL"
        /\ (cmd = "use_mmol" /\ cached.units \in {"absent", "null"})
              => ~result.mmol

\* C9: no step of any command removes or changes a stored row.
C9_AppendOnly ==
    [][store \sqsubseteq store']_vars

\* an analysis has run on a store of several rows, one of them a row whose
\* id the remote now offers with other content
C9_Witness ==
    /\ pc = "done" /\ cmd \in AnalysisCmds /\ result.kind # "error"
    /\ Count(store) >= 2
    /\ \E r \in BagToSet(store) : \E i \in remote :
          Entry(i).type = "sgv" /\ Entry(i).id = r.id /\ Row(Entry(i)) # r

\* the stored rows in the window of the finished command whose value is
\* not zero
NonZeroWindow ==
    {r \in BagToSet(store) : r.date_ms >= CutoffMs(now, days) /\ r.sgv # 0}

RECURSIVE SumRows(_)
SumRows(S) ==
    IF S = {} THEN 0
    ELSE LET r == CHOOSE x \in S : TRUE
         IN r.sgv * CopiesIn(r, store) + SumRows(S \ {r})

RECURSIVE CountRows(_)
CountRows(S) ==
    IF S = {} THEN 0
    ELSE LET r == CHOOSE x \in S : TRUE
         IN CopiesIn(r, store) + CountRows(S \ {r})

\* C10: the figures of analyze_cgm are those of the stored readings in the
\* window whose value is not zero: count, mean, extremes, GMI, the five
\* time-in-range percentages and the hourly averages.
C10_AnalyzeSkipsZero ==
    (pc = "done" /\ cmd = "analyze" /\ result.kind = "analysis") =>
        LET W == NonZeroWindow
            n == CountRows(W)
            mmol == result.unit = "mmol/L"
            t == GetThresholds(cached)
            In(lo, hi) == CountRows({r \in W : lo <= r.sgv /\ r.sgv <= hi})
        IN /\ n > 0
           /\ result.readings = n
           /\ result.statistics.count = n
           /\ result.statistics.mean
                = ConvertGlucose(RoundHalfEven(10 * SumRows(W), n), mmol)
           /\ \E r \in W :
                /\ \A x \in W : r.sgv <= x.sgv
                /\ result.statistics.min = ConvertGlucose(10 * r.sgv, mmol)
           /\ \E r \in W :
                /\ \A x \in W : r.sgv >= x.sgv
                /\ result.statistics.max = ConvertGlucose(10 * r.sgv, mmol)
           /\ \E r \in W : result.statistics.median = ConvertGlucose(10 * r.sgv, mmol)
           /\ result.gmi_estimated_a1c = Gmi(SumRows(W), n)
           /\ result.time_in_range.very_low_pct
                = Pct(CountRows({r \in W : r.sgv < t.urgent_low.v}), n)
           /\ result.time_in_range.low_pct
                = Pct(In(t.urgent_low.v, t.target_low.v - 1), n)
           /\ result.time_in_range.in_range_pct
                = Pct(In(t.target_low.v, t.target_high.v), n)
           /\ result.time_in_range.high_pct
                = Pct(In(t.target_high.v + 1, t.urgent_high.v), n)
           /\ result.time_in_range.very_high_pct
                = Pct(CountRows({r \in W : r.sgv > t.urgent_high.v}), n)
           /\ DOMAIN result.hourly_averages
                = {r.ds.h : r \in {x \in W : x.ds.k = "iso"}}
           /\ \A h \in DOMAIN result.hourly_averages :
                LET Wh == {r \in W : r.ds.k = "iso" /\ r.ds.h = h}
                IN result.hourly_averages[h]
                     = ConvertGlucose(10 * RoundHalfEven(SumRows(Wh), CountRows(Wh)), mmol)

\* an analysis returned figures while the window held a zero-valued row
C10_Witness ==
    /\ pc = "done" /\ cmd = "analyze" /\ result.kind = "analysis"
    /\ \E r \in BagToSet(store) : r.sgv = 0 /\ r.date_ms >= CutoffMs(now, days)

\* the stored readings of a local day, taken at or after cutoff, whose value
\* is not zero
NonZeroOn(day, cutoff) ==
    {r \in BagToSet(store) :
        LocalDay(r.date_ms) = day /\ r.date_ms >= cutoff /\ r.sgv # 0}

\* C11: view_day and find_worst_days leave readings of value 0 out: such a
\* reading is not in a day's count of readings and is never the minimum or
\* the trough of a day.
C11_ViewsSkipZero ==
    /\ (pc = "done" /\ cmd = "day" /\ result.kind = "day") =>
         /\ result.statistics.min > 0
         /\ ~HasWindow(hist.args.hs, hist.args.he) =>
              result.readings_count = CountRows(NonZeroOn(result.date, 0))
    /\ (pc = "done" /\ cmd = "worst" /\ result.kind = "worst") =>
         \A i \in 1..Len(result.worst_days) :
            LET w == result.worst_days[i]
            IN /\ w.trough > 0
               /\ ~HasWindow(hist.args.hs, hist.args.he) =>
                    w.readings = CountRows(NonZeroOn(w.date, CutoffMs(now, days)))

Ascending(t) ==
    /\ t.urgent_low.v <= t.target_low.v
    /\ t.target_low.v <= t.target_high.v
    /\ t.target_high.v <= t.urgent_high.v

\* the values analyze_cgm has worked on, in the finished call
AnalyzedValues ==
    LET rows == RowsByDate(Selected(store, CutoffMs(now, days)))
    IN [i \in 1..Len(rows) |-> rows[i].sgv]

\* C12: for ascending thresholds every value falls in exactly one of the
\* five bands of get_time_in_range, the in-range band holding both targets:
\* the percentages are those of the values below urgent_low, from
\* urgent_low to below target_low, from target_low to target_high, above
\* target_high up to urgent_high, and above urgent_high; with 55, 70, 180,
\* 250 the values 70 and 180 are in range, 181 is high and 54 very low.
C12_BandsPartition ==
    (pc = "done" /\ cmd = "analyze" /\ result.kind = "analysis") =>
      LET t == GetThresholds(cached)
          q == AnalyzedValues
          n == Len(q)
          Among(lo, hi) == Cardinality({i \in 1..n : lo <= q[i] /\ q[i] <= hi})
          Bands(v) == (IF VeryLowBand(v, t) THEN 1 ELSE 0)
                      + (IF LowBand(v, t) THEN 1 ELSE 0)
                      + (IF InRangeBand(v, t) THEN 1 ELSE 0)
                      + (IF HighBand(v, t) THEN 1 ELSE 0)
                      + (IF VeryHighBand(v, t) THEN 1 ELSE 0)
      IN Ascending(t) =>
           /\ result.time_in_range.very_low_pct
                = Pct(Among(0, t.urgent_low.v - 1), n)
           /\ result.time_in_range.low_pct
                = Pct(Among(t.urgent_low.v, t.target_low.v - 1), n)
           /\ result.time_in_range.in_range_pct
                = Pct(Among(t.target_low.v, t.target_high.v), n)
           /\ result.time_in_range.high_pct
                = Pct(Among(t.target_high.v + 1, t.urgent_high.v), n)
           /\ result.time_in_range.very_high_pct
                = Pct(n - Among(0, t.urgent_high.v), n)
           /\ \A i \in 1..n : Bands(q[i]) = 1
           /\ (t.urgent_low.v = 55 /\ t.target_low.v = 70
               /\ t.target_high.v = 180 /\ t.urgent_high.v = 250) =>
                \A i \in 1..n :
                   /\ q[i] \in {70, 180} => InRangeBand(q[i], t)
                   /\ q[i] = 181 => HighBand(q[i], t)
                   /\ q[i] = 54 => VeryLowBand(q[i], t)

C12_Witness ==
    /\ pc = "done" /\ cmd = "analyze" /\ result.kind = "analysis"
    /\ GetThresholds(cached).urgent_low = Num(55)
    /\ GetThresholds(cached).urgent_high = Num(250)
    /\ {AnalyzedValues[i] : i \in 1..Len(AnalyzedValues)} = {54, 70, 180, 181}
    /\ Len(AnalyzedValues) = 4
    /\ result.time_in_range.very_low_pct = 250
    /\ result.time_in_range.in_range_pct = 500
    /\ result.time_in_range.high_pct = 250

\* the call was given an hour window whose start is after its end
Inverted(a) == HasWindow(a.hs, a.he) /\ a.hs.v > a.he.v

\* the readings in the window of the finished query whose text gives the
\* asked weekday, if one was asked, and an hour h >= hour_start or
\* h < hour_end
WrapRows ==
    {r \in NonZeroWindow :
        /\ r.ds.k = "iso"
        /\ hist.args.dow.k = "num" => Weekday(r.ds.d) = hist.args.dow.v
        /\ r.ds.h >= hist.args.hs.v \/ r.ds.h < hist.args.he.v}

\* C13: query_patterns with hour_start > hour_end selects exactly the
\* readings of hour h >= hour_start or h < hour_end; the window is not
\* taken as empty.
C13_QueryWraps ==
    (pc = "done" /\ cmd = "query" /\ Inverted(hist.args) /\ result.kind # "raise") =>
      IF WrapRows = {} THEN result.kind = "error"
      ELSE /\ result.kind = "query"
           /\ result.readings_matched = CountRows(WrapRows)
           /\ DOMAIN result.hourly_averages = {r.ds.h : r \in WrapRows}

C13_Witness ==
    /\ pc = "done" /\ cmd = "query" /\ Inverted(hist.args)
    /\ result.kind = "query"
    /\ result.readings_matched = 1
    /\ \E r \in NonZeroWindow \ WrapRows : r.ds.k = "iso"

\* the stored readings of non-zero value taken on a local day, at or
\* after cutoff, at a local hour h >= hour_start or h < hour_end
WrapOn(S, cutoff) ==
    {r \in BagToSet(store) :
        /\ r.sgv # 0
        /\ LocalDay(r.date_ms) \in S
        /\ r.date_ms >= cutoff
        /\ \/ LocalHour(r.date_ms) >= hist.args.hs.v
           \/ LocalHour(r.date_ms) < hist.args.he.v}

\* C14: view_day and find_worst_days take an hour window with
\* hour_start > hour_end as wrapping past midnight (hour >= hour_start or
\* hour < hour_end), not as empty.
C14_ViewsWrap ==
    /\ (pc = "done" /\ cmd = "day" /\ Inverted(hist.args)
        /\ ParseDateArg(hist.args.date, now).kind = "date"
        /\ result.kind # "raise") =>
         LET day == ParseDateArg(hist.args.date, now).d
         IN (WrapOn({day}, 0) # {}) => (result.kind = "day")
    /\ (pc = "done" /\ cmd = "worst" /\ Inverted(hist.args)
        /\ result.kind # "raise") =>
         (WrapOn(0..LocalDay(now), CutoffMs(now, days)) # {}
            => result.kind = "worst")

\* C15: in analyze and in query without filters a reading whose timestamp
\* text does not parse is in no hourly or daily group, and is counted in
\* the number of readings and in the statistics and time in range.
C15_UnparsedStillCounted ==
    /\ (pc = "done" /\ cmd = "analyze" /\ result.kind = "analysis") =>
         /\ result.readings = CountRows(NonZeroWindow)
         /\ result.statistics.count = CountRows(NonZeroWindow)
         /\ DOMAIN result.hourly_averages
              = {r.ds.h : r \in {x \in NonZeroWindow : x.ds.k = "iso"}}
    /\ (pc = "done" /\ cmd = "query" /\ hist.args.dow.k # "num"
        /\ ~HasWindow(hist.args.hs, hist.args.he)
        /\ NonZeroWindow # {} /\ result.kind # "raise") =>
         /\ result.kind = "query"
         /\ result.readings_matched = CountRows(NonZeroWindow)
         /\ result.statistics.count = CountRows(NonZeroWindow)
         /\ DOMAIN result.hourly_averages
              = {r.ds.h : r \in {x \in NonZeroWindow : x.ds.k = "iso"}}

\* C16: a stored reading whose timestamp text is unparseable or missing
\* does not make analyze_cgm, query_patterns or find_patterns raise, also
\* when every reading of the window is such (the settings being usable).
C16_BadTextNeverRaises ==
    (/\ pc = "done"
     /\ cmd \in {"analyze", "query", "patterns"}
     /\ UseMmol(cached).kind # "raise"
     /\ Comparable(GetThresholds(cached))) =>
      result.kind # "raise"

\* C17: with the data file absent, or present without the readings table,
\* ensure_data gives the command a boolean; it does not raise.
C17_EnsureNeverRaises ==
    hist.ensure # "raise"

\* the rows find_worst_days has selected in the finished call, and the
\* displayed peak of one of their days
RankedRows ==
    BagToSet(WorstRows(store, CutoffMs(now, days), hist.args.hs, hist.args.he))

PeakOf(day) ==
    LET S == {r.sgv : r \in {x \in RankedRows : LocalDay(x.date_ms) = day}}
    IN ConvertGlucose(10 * (CHOOSE v \in S : \A u \in S : u <= v),
                      UseMmol(cached).mmol)

\* C18: find_worst_days returns the days in order of non-increasing peak,
\* at most limit of them, and those are the days of highest peak among the
\* days that have readings.
C18_WorstRanked ==
    (pc = "done" /\ cmd = "worst" /\ result.kind = "worst") =>
      LET wd == result.worst_days
          D == {LocalDay(r.date_ms) : r \in RankedRows}
          R == {wd[i].date : i \in 1..Len(wd)}
      IN /\ Len(wd) <= hist.args.limit
         /\ Len(wd) = IF Cardinality(D) < hist.args.limit
                      THEN Cardinality(D) ELSE hist.args.limit
         /\ Cardinality(R) = Len(wd)
         /\ R \subseteq D
         /\ \A i \in 1..Len(wd) : wd[i].peak = PeakOf(wd[i].date)
         /\ \A i, j \in 1..Len(wd) : i < j => wd[i].peak >= wd[j].peak
         /\ \A day \in D \ R : \A i \in 1..Len(wd) : PeakOf(day) <= wd[i].peak

C18_Witness ==
    /\ pc = "done" /\ cmd = "worst" /\ result.kind = "worst"
    /\ Len(result.worst_days) = 3
    /\ result.worst_days[1].peak > result.worst_days[2].peak
    /\ result.worst_days[2].peak > result.worst_days[3].peak
    /\ result.worst_days[1].date < result.worst_days[2].date

\* the settings with the other unit
OtherUnit(s) ==
    [s EXCEPT !.units = IF UseMmol(s).mmol THEN "mg/dl" ELSE "mmol"]

\* C19: on the same store and thresholds analyze_cgm gives the same
\* readings, time in range, GMI, CV and CV status under mg/dL and under
\* mmol/L; the unit label differs.
C19_UnitIndependent ==
    (pc = "done" /\ cmd = "analyze" /\ result.kind = "analysis") =>
      LET o == AnalyzeCgm(store, now, days, OtherUnit(cached))
      IN /\ o.kind = "analysis"
         /\ o.readings = result.readings
         /\ o.time_in_range = result.time_in_range
         /\ o.gmi_estimated_a1c = result.gmi_estimated_a1c
         /\ o.cv_variability = result.cv_variability
         /\ o.cv_status = result.cv_status
         /\ o.unit # result.unit

C19_Witness ==
    /\ pc = "done" /\ cmd = "analyze" /\ result.kind = "analysis"
    /\ result.unit = "mmol/L"
    /\ result.readings > 1
    /\ result.cv_variability > 0
    /\ AnalyzeCgm(store, now, days, OtherUnit(cached)).statistics.mean
         # result.statistics.mean

HostOf(u) ==
    CHOOSE h \in Hosts : Len(u) >= Len(h) /\ SubSeq(u, 1, Len(h)) = h

IsApiForm(u) ==
    \E h \in Hosts, p \in ApiPaths, k \in 0..MaxSlashes : u = h \o p \o Slashes(k)

C21_UrlNormalized ==
    result.kind = "url" =>
        /\ IsApiForm(result.arg) =>
             result.url = HostOf(result.arg) \o <<"api", "v1", "entries.json">>
        /\ NormalizeNightscoutUrl(result.url) = result.url
        /\ EndsWith(result.url, <<"api", "v1", "entries.json">>)

C21_Witness ==
    /\ result.kind = "url"
    /\ result.arg = <<"https:", "", "h.com", "api", "v1", "entries", "">>
    /\ result.url = <<"https:", "", "h.com", "api", "v1", "entries.json">>


\* C22: in a sync, a page whose minimum timestamp is older than the cutoff
\* is still ingested in full - every observation of the page is in the
\* store after the step - and the sync returns success without a further
\* request.
Answered ==
    /\ pc = "fetch"
    /\ hist'.failedAt = 0
    /\ <<store, pc, oldest_date, total_new, reqs>>' #
         <<store, pc, oldest_date, total_new, reqs>>

PastCutoff(page) == page # <<>> /\ MinDate(page) < cutoff_ms

C22_OvershootIngested ==
    [][LET page == Page(remote, oldest_date) IN
       (Answered /\ PastCutoff(page)) =>
           /\ \A i \in 1..Len(page) :
                page[i].type = "sgv" => HasId(store', page[i].id)
           /\ pc' # "fetch"
           /\ hist'.fetchRes = "success"
           /\ reqs' = Bump(reqs, MaxReqs)
           /\ total_new' = hist'.new]_vars

C22_Witness ==
    /\ pc = "done"
    /\ cmd = "refresh"
    /\ result.kind = "success"
    /\ \E r \in hist.inserted : r.date_ms < cutoff_ms
    /\ \E r \in hist.inserted : r.date_ms >= cutoff_ms


\* C27: a sync terminates, whatever finite history the remote holds and
\* whatever the lookback: once fetch_and_store has started, it returns.
C27_SyncTerminates == (pc = "fetch") ~> (pc # "fetch")

\* C28: after a sync that returned success against an unchanging remote,
\* every observation of the remote with a timestamp at or after the cutoff
\* is in the store.
C28_SyncComplete ==
    (pc = "done" /\ cmd = "refresh" /\ result.kind = "success") =>
        \A i \in remote :
            (Entry(i).type = "sgv" /\ Entry(i).date >= cutoff_ms)
                => HasId(store, Entry(i).id)


\* C29: when a sync returns success, new_readings is the number of
\* distinct ids among the observations of the fetched pages that the store
\* did not hold before the sync, and total_readings is the number of rows
\* before the sync plus new_readings.
NewIds(h) ==
    {e.id : e \in {x \in h.seen : x.type = "sgv" /\ ~HasId(h.store0, x.id)}}

C29_SyncCounts ==
    /\ hist.fetchRes = "success" =>
         /\ hist.new = Cardinality(NewIds(hist))
         /\ Count(store) = Count(hist.store0) + hist.new
    /\ result.kind = "success" =>
         /\ result.new_readings = Cardinality(NewIds(hist))
         /\ result.total_readings = Count(hist.store0) + result.new_readings

C29_Witness ==
    /\ result.kind = "success"
    /\ Count(hist.store0) > 0
    /\ result.new_readings > 0
    /\ hist.skipped
    /\ \E e \in hist.seen : e.type # "sgv"


\* the k-th smallest value of the readings analyze_cgm has worked on
KthSmallest(k) ==
    CHOOSE v \in {r.sgv : r \in NonZeroWindow} :
        /\ CountRows({r \in NonZeroWindow : r.sgv < v}) < k
        /\ k <= CountRows({r \in NonZeroWindow : r.sgv <= v})

Analyzed == pc = "done" /\ cmd = "analyze" /\ result.kind = "analysis"

EvenCount == CountRows(NonZeroWindow) % 2 = 0

\* C25: for an even number of values, the median get_stats reports is the
\* lower of the two middle values of the sorted sequence.
C25_LowerMedian ==
    (Analyzed /\ EvenCount) =>
        result.statistics.median
          = ConvertGlucose(10 * KthSmallest(CountRows(NonZeroWindow) \div 2),
                           result.unit = "mmol/L")

\* C25, amended: the median get_stats reports is the value at index n // 2
\* of the sorted sequence: for an even number of values the upper of the
\* two middle values, for an odd number the middle value.
C25_UpperMedian ==
    Analyzed =>
        result.statistics.median
          = ConvertGlucose(10 * KthSmallest(CountRows(NonZeroWindow) \div 2 + 1),
                           result.unit = "mmol/L")

C25_Witness ==
    /\ Analyzed
    /\ CountRows(NonZeroWindow) = 4
    /\ KthSmallest(2) = 70
    /\ KthSmallest(3) = 180
    /\ result.unit = "mg/dL"
    /\ result.statistics.median = 1800


\* the stored readings of a day whose local hour is h
InHourOn(day, h) ==
    {r \in BagToSet(store) :
        LocalDay(r.date_ms) = day /\ LocalHour(r.date_ms) = h}

OneHour(a) == HasWindow(a.hs, a.he) /\ a.hs.v = a.he.v

\* C24: view_day with hour_start = hour_end = H returns the readings of the
\* date whose local hour is H, all of them and no other; the bounds are
\* inclusive.
C24_OneHourWindow ==
    (pc = "done" /\ cmd = "day" /\ OneHour(hist.args)
     /\ ParseDateArg(hist.args.date, now).kind = "date") =>
        LET S == InHourOn(ParseDateArg(hist.args.date, now).d, hist.args.hs.v)
            n == IF result.kind = "day" THEN Len(result.readings) ELSE 0
            With(g) == Cardinality({i \in 1..n : result.readings[i].glucose = g})
        IN /\ (S = {}) <=> (result.kind = "error")
           /\ result.kind = "day" =>
                /\ result.readings_count = CountRows(S)
                /\ n = CountRows(S)
                /\ \A i \in 1..n :
                     LET g == result.readings[i].glucose
                     IN With(g) = CountRows({r \in S :
                            ConvertGlucose(10 * r.sgv, result.unit = "mmol/L") = g})

C24_Witness ==
    /\ pc = "done" /\ cmd = "day" /\ result.kind = "day"
    /\ OneHour(hist.args)
    /\ result.readings_count = 1
    /\ CountRows({r \in BagToSet(store) : LocalDay(r.date_ms) = result.date}) = 2


\* the readings of the window below the low target, and those of them the
\* text of which gives hour h, or weekday w
LowRows ==
    {r \in NonZeroWindow : r.sgv < GetThresholds(cached).target_low.v}

LowsAt(h) == CountRows({r \in LowRows : r.ds.k = "iso" /\ r.ds.h = h})

LowsOn(w) == CountRows({r \in LowRows : r.ds.k = "iso" /\ Weekday(r.ds.d) = w})

\* the least of the arguments at which f is greatest
LeastArgMax(S, f(_)) ==
    CHOOSE x \in S :
        /\ \A y \in S : f(y) <= f(x)
        /\ \A y \in S : f(y) = f(x) => x <= y

Mined ==
    /\ pc = "done" /\ cmd = "patterns" /\ result.kind = "patterns"
    /\ GetThresholds(cached).target_low.k = "num"

\* C26: in find_patterns low_events.total is the number of readings of the
\* window below the low target, and of the hours (weekdays) with the most
\* low events most_common_hour (most_common_day) is the lowest hour
\* (earliest weekday).
C26_LowEvents ==
    Mined =>
        LET Hs == {r.ds.h : r \in {x \in LowRows : x.ds.k = "iso"}}
            Ws == {Weekday(r.ds.d) : r \in {x \in LowRows : x.ds.k = "iso"}}
        IN /\ result.low_events.total = CountRows(LowRows)
           /\ Hs # {} =>
                result.low_events.most_common_hour = Num(LeastArgMax(Hs, LowsAt))
           /\ Ws # {} =>
                result.low_events.most_common_day = Num(LeastArgMax(Ws, LowsOn))


\* the band in which get_time_in_range counts the one value v: the one
\* whose percentage is 100.0
BandNames == {"very_low", "low", "in_range", "high", "very_high"}

TirPct(tir, b) ==
    CASE b = "very_low" -> tir.very_low_pct
      [] b = "low" -> tir.low_pct
      [] b = "in_range" -> tir.in_range_pct
      [] b = "high" -> tir.high_pct
      [] OTHER -> tir.very_high_pct

TirBands(v, t) ==
    {b \in BandNames : TirPct(GetTimeInRange(<<v>>, t), b) = 1000}

\* the band a status text of get_current_glucose names
BandOfText(s) ==
    CASE s = "VERY LOW - urgent" -> "very_low"
      [] s = "low" -> "low"
      [] s = "in range" -> "in_range"
      [] s = "high" -> "high"
      [] OTHER -> "very_high"

TheValue == (CHOOSE r \in BagToSet(store) : TRUE).sgv

\* C23: for ascending thresholds the three classifiers put a glucose value
\* in the same band: get_time_in_range counts it in exactly one band, the
\* status of get_current_glucose names that band and the status of
\* view_day is that band.
C23_ClassifiersAgree ==
    (pc = "done" /\ Ascending(GetThresholds(cached))) =>
        LET t == GetThresholds(cached)
            B == TirBands(TheValue, t)
        IN /\ Cardinality(B) = 1
           /\ (cmd = "analyze" /\ result.kind = "analysis") =>
                result.time_in_range = GetTimeInRange(<<TheValue>>, t)
           /\ (cmd = "current") =>
                /\ result.kind = "current"
                /\ BandOfText(result.status) \in B
           /\ (cmd = "day") =>
                /\ result.kind = "day"
                /\ result.readings[1].status \in B

\* a value that is the upper target and the urgent high at once,
\* classified by view_day
C23_Witness ==
    /\ pc = "done" /\ cmd = "day" /\ result.kind = "day"
    /\ GetThresholds(cached) = [kind |-> GetThresholds(cached).kind,
                                urgent_low |-> Num(60), target_low |-> Num(70),
                                target_high |-> Num(180), urgent_high |-> Num(180)]
    /\ TheValue = 180
    /\ result.readings[1].status = "in_range"


\* the store without the rows older than the cutoff of the finished call
RecentStore ==
    LET S == {r \in BagToSet(store) : r.date_ms >= CutoffMs(now, days)}
    IN [r \in S |-> CopiesIn(r, store)]

OlderRows == {r \in BagToSet(store) : r.date_ms < CutoffMs(now, days)}

\* C30: analyze_cgm, query_patterns and find_patterns use only the readings
\* with date_ms >= now - days: what they return is what they return on the
\* store without the older rows, and the readings they count are readings
\* of the window.
C30_OnlyWindow ==
    pc = "done" =>
        /\ cmd = "analyze" =>
             /\ result = AnalyzeCgm(RecentStore, now, days, cached)
             /\ result.kind = "analysis" =>
                  result.readings = CountRows(NonZeroWindow)
        /\ cmd = "query" =>
             /\ result = QueryPatterns(RecentStore, now, days, hist.args.dow,
                                       hist.args.hs, hist.args.he, cached)
             /\ result.kind = "query" =>
                  result.readings_matched <= CountRows(NonZeroWindow)
        /\ cmd = "patterns" =>
             /\ result = FindPatterns(RecentStore, now, days, cached)
             /\ result.kind = "patterns" =>
                  result.total_readings = CountRows(NonZeroWindow)

\* patterns were mined from a store that also holds an older reading of
\* non-zero value, lower than every reading of the window
C30_Witness ==
    /\ pc = "done" /\ cmd = "patterns" /\ result.kind = "patterns"
    /\ result.total_readings = 2
    /\ \E r \in OlderRows :
         /\ r.sgv > 0
         /\ r.ds.k = "iso"
         /\ \A x \in NonZeroWindow : r.sgv < x.sgv

====
